---- MODULE Spec2Model ----
(***************************************************************************)
(* Model of the preprocessing engine of pptx-creator.py:                   *)
(*   - PresentationPreprocessor: the XML tree walk that builds the         *)
(*     PreprocessorEntry / PreprocessorValue tree and resolves the         *)
(*     get / set / mod / append / prepend directives on a VariableStack;   *)
(*   - ImportSpreadsheet._get_array: the row/column range-spec parser.     *)
(*                                                                         *)
(* The XML document is not fixed in advance: the walk visits the document  *)
(* in document order and never looks ahead, so the model lets every step   *)
(* choose the next piece of the document (start of an element, an          *)
(* attribute, the element text, end of the element with its tail text).    *)
(* Strings are TLA+ strings; characters are taken with SubSeq(s, i, i).    *)
(***************************************************************************)
EXTENDS Integers, Sequences, FiniteSets, TLC

VARIABLES
    pc,         \* "init" before parse, "walk" inside _process_element, "done", "error"
    tree,       \* arena of PreprocessorEntry / PreprocessorValue objects, index = identity
    var_stack,  \* VariableStack.var_stack: sequence of dictionaries
    walk,       \* the recursion stack of _process_element (one frame per open call)
    nelems,     \* number of XML elements entered so far (their line numbers)
    err,        \* the exception that aborted parse
    ev,         \* history: the directive resolved by the latest step
    modlog,     \* history: per variable, the latest mod that has not been overwritten
    spec,       \* _get_array: the spec string
    ga,         \* _get_array: outcome [state, array, err]
    imp,        \* one spreadsheet import: the ImportSpreadsheet object and the locals of _import
    stk,        \* the VariableStack objects of pptx-creator.py and pptx-preprocessor.py, side by side
    tbl         \* _ph_table: its locals, the table it created, and the outcome of an earlier call

vars == <<pc, tree, var_stack, walk, nelems, err, ev, modlog, spec, ga, imp, stk, tbl>>
treevars == <<pc, tree, var_stack, walk, nelems, err, ev, modlog>>
gavars == <<spec, ga>>
impvars == <<imp>>
stkvars == <<stk>>
tblvars == <<tbl>>

(***************************************************************************)
(* Bounds of the explored documents.                                       *)
(***************************************************************************)
MaxElems == 4
MaxDepth == 4
ScopeElems == 5
ScopeDepth == 3

(***************************************************************************)
(* String helpers.                                                         *)
(***************************************************************************)
Char(s, i) == SubSeq(s, i, i)

IsSpace(c) == c \in {" ", "\t", "\n"}

RECURSIVE LStrip(_)
LStrip(s) ==
    IF Len(s) > 0 /\ IsSpace(Char(s, 1)) THEN LStrip(SubSeq(s, 2, Len(s))) ELSE s

RECURSIVE RStrip(_)
RStrip(s) ==
    IF Len(s) > 0 /\ IsSpace(Char(s, Len(s))) THEN RStrip(SubSeq(s, 1, Len(s) - 1)) ELSE s

\* str.strip()
Strip(s) == RStrip(LStrip(s))

RECURSIVE JoinAll(_)
\* ''.join(values)
JoinAll(ss) == IF ss = <<>> THEN "" ELSE Head(ss) \o JoinAll(Tail(ss))

RECURSIVE IndexOf(_, _, _)
\* list.index(x) (1-based here), 0 when absent
IndexOf(seq, x, i) ==
    IF i > Len(seq) THEN 0 ELSE IF seq[i] = x THEN i ELSE IndexOf(seq, x, i + 1)

\* list.remove(x): removes the first occurrence
RemoveFirst(seq, x) ==
    LET i == IndexOf(seq, x, 1)
    IN  IF i = 0 THEN seq ELSE SubSeq(seq, 1, i - 1) \o SubSeq(seq, i + 1, Len(seq))

\* list.insert(0, x)
InsertFront(seq, x) == <<x>> \o seq

(***************************************************************************)
(* Errors.  An exception is recorded with its Python type, the source line *)
(* of the raise, and the pieces of information its message carries.        *)
(***************************************************************************)
NoErr == [type |-> "none", at |-> 0, directive |-> "", var |-> "", hasvar |-> FALSE,
          file |-> FALSE, line |-> 0]

\* an exception whose message carries no directive, variable or position
BareErr(type, at) == [NoErr EXCEPT !.type = type, !.at = at]

NoEv == [op |-> "none", var |-> "", val |-> "", level |-> 0, id |-> 0, parent |-> 0,
         idx |-> 0, newid |-> 0, acc |-> ""]

\* no exception of the importer; args is the args tuple of the exception
NoImpErr == [type |-> "none", at |-> 0, args |-> <<>>]

\* before ImportCSV.__init__: no import is in progress
NoImport ==
    [pc |-> "idle", data |-> <<>>, rows |-> <<>>, cols |-> <<>>,
     row_keys |-> <<>>, col_keys |-> <<>>, num_row |-> 0, num_col |-> 0,
     ret |-> <<>>, x_num_row |-> <<>>, x_num_col |-> <<>>, col_bound |-> FALSE,
     nchild |-> 0, last |-> "", invalid |-> <<>>, grid |-> <<>>, err |-> NoImpErr]

\* before any VariableStack is constructed
Outcome(raised, val) == [raised |-> raised, val |-> val]

NoStacks == [pc |-> "idle", creator |-> <<>>, preprocessor |-> <<>>, nops |-> 0,
             op |-> "", var |-> "", got |-> <<Outcome("none", ""), Outcome("none", "")>>]

\* before add_table: no table shape
NoShape == [made |-> FALSE, rows |-> 0, cols |-> 0, text |-> {}]

\* before _ph_table is called.  first and before are history: the outcome of
\* the earlier call, and the entry tree before the first call.
NoTable ==
    [pc |-> "idle", run |-> 0, i |-> 0, k |-> 0, table |-> <<>>, cur_row |-> -1,
     cur_col |-> -1, max_col |-> 0, err |-> NoImpErr, prs |-> NoShape,
     invalid |-> <<>>, first |-> <<>>, before |-> <<>>, last |-> ""]

\* history: what the walk has read of an entry's XML element, in source order
SrcItem(k, name, s, id) == [k |-> k, name |-> name, s |-> s, id |-> id]

(***************************************************************************)
(* PreprocessorEntry / PreprocessorValue objects.  An object is identified *)
(* by its index in the arena `tree`; parent = 0 means the attribute was    *)
(* never assigned.  hasvalue tells whether the `value` attribute exists.   *)
(* elemtag, origin and src are history fields (the XML tag the entry was   *)
(* built from, the operation that built a value, the XML read so far for   *)
(* the entry); the code never reads them.                                  *)
(***************************************************************************)
RootId == 1

EntryNode(tag, parent, line, is_attrib) ==
    [which |-> "entry", tag |-> tag, data |-> <<>>, parent |-> parent,
     is_attrib |-> is_attrib, value |-> "", hasvalue |-> FALSE, line |-> line,
     elemtag |-> tag, origin |-> IF is_attrib THEN "attr" ELSE "elem", src |-> <<>>]

\* PreprocessorValue.__init__(parent, value): "if value:" leaves the object
\* without a value attribute for an empty string
NewValue(t, parent, value, origin) ==
    LET id == Len(t) + 1
        node == [which |-> "value", tag |-> "", data |-> <<>>, parent |-> parent,
                 is_attrib |-> FALSE, value |-> value, hasvalue |-> (value # ""),
                 line |-> 0, elemtag |-> "", origin |-> origin, src |-> <<>>]
        t2 == Append(t, node)
    IN  IF parent # 0 THEN [t2 EXCEPT ![parent].data = Append(@, id)] ELSE t2

\* PreprocessorEntry.__init__(tag, parent, elem, is_attrib), value=None
NewEntry(t, tag, parent, line, is_attrib) ==
    LET id == Len(t) + 1
        t2 == Append(t, EntryNode(tag, parent, line, is_attrib))
    IN  IF parent # 0 THEN [t2 EXCEPT ![parent].data = Append(@, id)] ELSE t2

\* PreprocessorEntry.add_value
add_value(t, id, value) == NewValue(t, id, value, "text")

\* as add_text, but without the test for empty text
add_text_keep_empty(t, id, textopt) ==
    IF textopt = <<>> THEN t ELSE add_value(t, id, Strip(textopt[1]))

\* PreprocessorEntry.add_text; textopt is <<>> for None and <<s>> for a string s
add_text(t, id, textopt) ==
    IF textopt = <<>> THEN t
    ELSE LET text == Strip(textopt[1])
         IN  IF text # "" THEN add_value(t, id, text) ELSE t

\* the children of an entry that are values / entries carrying a tag
ValueChildren(t, id) == SelectSeq(t[id].data, LAMBDA c : t[c].which = "value")
TagChildren(t, id, tag) ==
    SelectSeq(t[id].data, LAMBDA c : t[c].which = "entry" /\ t[c].tag = tag)

\* as get_values, but joining only the values that add_text built
get_values_text(t, id) ==
    LET vals == SelectSeq(t[id].data, LAMBDA c : t[c].which = "value" /\ t[c].origin = "text")
    IN  [ok  |-> \A i \in 1..Len(vals) : t[vals[i]].hasvalue,
         val |-> JoinAll([i \in 1..Len(vals) |-> t[vals[i]].value])]

\* PreprocessorEntry.get_values(join=True): ok is FALSE when str(pp.value)
\* raises AttributeError on a value object without a value attribute
get_values(t, id) ==
    LET vals == ValueChildren(t, id)
    IN  [ok  |-> \A i \in 1..Len(vals) : t[vals[i]].hasvalue,
         val |-> JoinAll([i \in 1..Len(vals) |-> t[vals[i]].value])]

\* PreprocessorEntry.get_values(tag=tag, join=True)
get_values_tag(t, id, tag) ==
    LET es == TagChildren(t, id, tag)
    IN  [ok   |-> \A i \in 1..Len(es) : get_values(t, es[i]).ok,
         vals |-> [i \in 1..Len(es) |-> get_values(t, es[i]).val]]

\* PreprocessorEntry.delete
delete(t, id) == [t EXCEPT ![t[id].parent].data = RemoveFirst(@, id)]

RECURSIVE RemoveLoop(_, _, _)
\* the loop of PreprocessorEntry.remove: it iterates over self.data by
\* position while removing from it, so the element after a removed one is skipped
RemoveLoop(data, matches, i) ==
    IF i > Len(data) THEN data
    ELSE IF data[i] \in matches
         THEN RemoveLoop(RemoveFirst(data, data[i]), matches, i + 1)
         ELSE RemoveLoop(data, matches, i + 1)

\* PreprocessorEntry.remove(tag)
remove(t, id, tag) ==
    LET matches == {c \in 1..Len(t) : t[c].which = "entry" /\ t[c].tag = tag}
    IN  [t EXCEPT ![id].data = RemoveLoop(@, matches, 1)]

\* as to_value, but without the assignment of the parent of the new value
to_value_no_parent(t, id, val) ==
    LET p   == t[id].parent
        idx == IndexOf(t[p].data, id, 1)
        t2  == NewValue(t, 0, val, "get")
        nid == Len(t2)
    IN  [t2 EXCEPT ![p].data[idx] = nid]

\* PreprocessorEntry.to_value: the new value takes the entry's position
to_value(t, id, val) ==
    LET p   == t[id].parent
        idx == IndexOf(t[p].data, id, 1)
        t2  == NewValue(t, 0, val, "get")
        nid == Len(t2)
    IN  [t2 EXCEPT ![p].data[idx] = nid, ![nid].parent = p]

(***************************************************************************)
(* VariableStack.  A dictionary is a function from names to values.        *)
(***************************************************************************)
EmptyDict == <<>>

push(vs) == Append(vs, EmptyDict)

pop(vs) == SubSeq(vs, 1, Len(vs) - 1)

RECURSIVE FindFrom(_, _, _)
FindFrom(vs, var, i) ==
    IF i < 1 THEN 0
    ELSE IF var \in DOMAIN vs[i] THEN i ELSE FindFrom(vs, var, i - 1)

\* VariableStack.find_dict: position of the dictionary found searching from
\* the top of the stack down, 0 when find_dict raises ValueError
find_dict(vs, var) == FindFrom(vs, var, Len(vs))

\* dict[var] = val
DictSet(d, var, val) == [k \in DOMAIN d \cup {var} |-> IF k = var THEN val ELSE d[k]]

\* as set, but writing into the outermost dictionary
set_outermost(vs, var, val) == [vs EXCEPT ![1] = DictSet(@, var, val)]

\* VariableStack.set: var_stack[-1][var] = val (the stack must not be empty)
set(vs, var, val) == [vs EXCEPT ![Len(vs)] = DictSet(@, var, val)]

\* as mod, but writing into the dictionary on top of the stack
mod_top(vs, var, val) == [vs EXCEPT ![Len(vs)] = DictSet(@, var, val)]

\* VariableStack.mod, for a variable that find_dict finds
mod(vs, var, val) == [vs EXCEPT ![find_dict(vs, var)] = DictSet(@, var, val)]

\* VariableStack.get, for a variable that find_dict finds
get(vs, var) == vs[find_dict(vs, var)][var]

(***************************************************************************)
(* PresentationPreprocessor._postprocess_element, after var_stack.pop().   *)
(* Each part returns the new tree and variable stack, the exception raised *)
(* (NoErr when none) and the record of the directive it resolved.          *)
(***************************************************************************)
Result(t, vs, e, v) == [t |-> t, vs |-> vs, err |-> e, ev |-> v]

\* error_info(elem_entry): file name and line number of the entry's element
WithInfo(e, t, id) == [e EXCEPT !.file = TRUE, !.line = t[id].line]

\* the ValueError raised by find_dict: it names the variable only
NotFound(var) == [BareErr("ValueError", 1822) EXCEPT !.var = var, !.hasvar = TRUE]

\* the record of a directive entry about to be resolved
EvOf(t, id, var, acc) ==
    [NoEv EXCEPT !.op = t[id].tag, !.var = var, !.id = id, !.parent = t[id].parent,
                 !.idx = IndexOf(t[t[id].parent].data, id, 1), !.acc = acc]

\* the append / prepend branch
PostAppendPrepend(t, vs, id, acc) ==
    LET kind == t[id].tag
        gv   == get_values(t, id)
        var  == gv.val
        lvl  == find_dict(vs, var)
        p    == t[id].parent
        val  == get(vs, var)
        t2   == NewValue(t, 0, val, kind)
        nid  == Len(t2)
        t3   == [t2 EXCEPT ![nid].parent = p,
                           ![p].data = IF kind = "append" THEN Append(@, nid)
                                       ELSE InsertFront(@, nid)]
    IN  IF ~gv.ok THEN Result(t, vs, BareErr("AttributeError", 1987), NoEv)
        ELSE IF lvl = 0
        THEN Result(t, vs,
                    WithInfo([BareErr("ValueError", 1600) EXCEPT
                                 !.directive = kind, !.var = var, !.hasvar = TRUE], t, id),
                    EvOf(t, id, var, acc))
        ELSE Result(delete(t3, id), vs, NoErr,
                    [EvOf(t, id, var, acc) EXCEPT !.val = val, !.level = lvl, !.newid = nid])

\* the get / mod / set branch
PostGetModSet(t, vs, id, acc) ==
    LET kind == t[id].tag
        va   == get_values_tag(t, id, "var")
        gv   == get_values(t, id)
        var  == va.vals[1]
        lvl  == find_dict(vs, var)
        e0   == EvOf(t, id, var, acc)
        dirErr(at) == WithInfo([BareErr("ValueError", at) EXCEPT !.directive = kind], t, id)
    IN  IF ~va.ok THEN Result(t, vs, BareErr("AttributeError", 1987), NoEv)
        ELSE IF Len(va.vals) = 0 THEN Result(t, vs, dirErr(1627), NoEv)
        ELSE IF Len(va.vals) > 1 THEN Result(t, vs, dirErr(1632), NoEv)
        ELSE IF ~gv.ok THEN Result(t, vs, BareErr("AttributeError", 1987), NoEv)
        ELSE IF var = "" THEN Result(t, vs, dirErr(1643), NoEv)
        ELSE IF kind = "get"
        THEN IF lvl = 0 THEN Result(t, vs, NotFound(var), e0)
             ELSE Result(to_value(t, id, get(vs, var)), vs, NoErr,
                         [e0 EXCEPT !.val = get(vs, var), !.level = lvl, !.newid = Len(t) + 1])
        ELSE IF kind = "mod"
        THEN IF lvl = 0 THEN Result(t, vs, NotFound(var), e0)
             ELSE Result(delete(t, id), mod(vs, var, gv.val), NoErr,
                         [e0 EXCEPT !.val = gv.val, !.level = lvl])
        ELSE IF Len(vs) = 0 THEN Result(t, vs, BareErr("IndexError", 1768), NoEv)
             ELSE Result(delete(t, id), set(vs, var, gv.val), NoErr,
                         [e0 EXCEPT !.val = gv.val, !.level = Len(vs)])

RECURSIVE FirstNonSlide(_, _, _)
\* the loop over the children of presentation: position of the first child
\* on which the loop body raises, 0 when the loop completes
FirstNonSlide(t, data, i) ==
    IF i > Len(data) THEN 0
    ELSE IF t[data[i]].which = "value" \/ t[data[i]].tag # "slide" THEN i
    ELSE FirstNonSlide(t, data, i + 1)

\* the structure checks of presentation, slide and placeholder
PostStructure(t, vs, id) ==
    LET tag   == t[id].tag
        ptag  == t[t[id].parent].tag
        sErr(at, who) == WithInfo(BareErr("ValueError", at), t, who)
        bad   == FirstNonSlide(t, t[id].data, 1)
        names == get_values_tag(t, id, "name")
    IN  IF tag = "presentation"
        THEN IF Len(t[id].data) = 0 THEN Result(t, vs, sErr(1663, id), NoEv)
             ELSE IF ptag # "_root_" THEN Result(t, vs, sErr(1670, id), NoEv)
             ELSE IF bad = 0 THEN Result(t, vs, NoErr, NoEv)
             \* child.tag on a PreprocessorValue
             ELSE IF t[t[id].data[bad]].which = "value"
             THEN Result(t, vs, BareErr("AttributeError", 1675), NoEv)
             ELSE Result(t, vs, sErr(1676, t[id].data[bad]), NoEv)
        ELSE IF tag = "slide"
        THEN IF ptag # "presentation" THEN Result(t, vs, sErr(1686, id), NoEv)
             ELSE Result(t, vs, NoErr, NoEv)
        ELSE IF tag = "placeholder"
        THEN IF ptag # "slide" THEN Result(t, vs, sErr(1696, id), NoEv)
             ELSE IF ~names.ok THEN Result(t, vs, BareErr("AttributeError", 1987), NoEv)
             ELSE IF Len(names.vals) > 1 THEN Result(t, vs, sErr(1704, id), NoEv)
             \* name_vals[0] on an empty list
             ELSE IF Len(names.vals) = 0 THEN Result(t, vs, BareErr("IndexError", 1707), NoEv)
             ELSE Result(remove([t EXCEPT ![id].tag = names.vals[1]], id, "name"),
                         vs, NoErr, NoEv)
        ELSE Result(t, vs, NoErr, NoEv)

\* as _postprocess_element, but resolving the directive on the stack that
\* still holds the element's own scope and popping that scope afterwards
_postprocess_element_pop_last(t, vs0, id, acc) ==
    LET tag == t[id].tag
        r   == IF tag \in {"append", "prepend"} THEN PostAppendPrepend(t, vs0, id, acc)
               ELSE IF tag \in {"get", "mod", "set"} THEN PostGetModSet(t, vs0, id, acc)
               ELSE PostStructure(t, vs0, id)
    IN  [r EXCEPT !.vs = pop(@)]

\* _postprocess_element(elem_entry); acc is history only
_postprocess_element(t, vs0, id, acc) ==
    LET vs  == pop(vs0)
        tag == t[id].tag
    IN  IF tag \in {"append", "prepend"} THEN PostAppendPrepend(t, vs, id, acc)
        ELSE IF tag \in {"get", "mod", "set"} THEN PostGetModSet(t, vs, id, acc)
        ELSE PostStructure(t, vs, id)

\* the checks of parse after the walk (lines 1457-1469)
ParseChecks(t) ==
    IF Len(t[RootId].data) <= 0 THEN BareErr("ValueError", 1459)
    ELSE IF Len(t[RootId].data) > 1 THEN BareErr("ValueError", 1464)
    ELSE IF t[t[RootId].data[1]].which = "value" THEN BareErr("AttributeError", 1467)
    ELSE IF t[t[RootId].data[1]].tag # "presentation"
         THEN WithInfo(BareErr("ValueError", 1468), t, t[RootId].data[1])
    ELSE NoErr

(***************************************************************************)
(* The pieces of XML documents the walk is run on.  An element head is the *)
(* start tag of an element with its attributes, the text that follows it   *)
(* and the text that follows its end tag: what ElementTree holds as        *)
(* elem.tag, elem.items(), elem.text and elem.tail (<<>> stands for None). *)
(***************************************************************************)
Head4(tag, items, text, tail) == [tag |-> tag, items |-> items, text |-> text, tail |-> tail]

\* documents of plain elements and presentation structure
DocHeads ==
    { Head4("presentation", <<>>, <<>>, <<>>),
      Head4("presentation", <<>>, <<"t">>, <<>>),
      Head4("presentation", <<<<"a", "v">>>>, <<>>, <<>>),
      Head4("slide", <<>>, <<>>, <<>>),
      Head4("slide", <<<<"a", " v ">>>>, <<>>, <<"\n">>),
      Head4("placeholder", <<<<"name", "n">>>>, <<" y ">>, <<>>),
      Head4("placeholder", <<<<"a", "v">>, <<"name", "slide">>>>, <<>>, <<"z ">>),
      Head4("placeholder", <<>>, <<>>, <<>>),
      Head4("name", <<>>, <<"m">>, <<"z">>),
      Head4("p", <<>>, <<>>, <<>>),
      Head4("p", <<<<"a", "">>, <<"b", "w">>>>, <<" ">>, <<" z">>),
      Head4("set", <<<<"var", "x">>>>, <<"a">>, <<>>),
      Head4("p", <<<<"append", "x">>>>, <<"t">>, <<>>),
      Head4("p", <<<<"prepend", "x">>>>, <<"t">>, <<>>) }

\* documents of variable directives
ScopeHeads ==
    { Head4("p", <<>>, <<>>, <<>>),
      Head4("set", <<<<"var", "x">>>>, <<"a">>, <<>>),
      Head4("set", <<<<"var", "x">>>>, <<>>, <<>>),
      Head4("set", <<<<"var", "y">>>>, <<" b">>, <<>>),
      Head4("mod", <<<<"var", "x">>>>, <<"c">>, <<>>),
      Head4("get", <<<<"var", "x">>>>, <<>>, <<>>),
      Head4("get", <<<<"var", "x">>>>, <<>>, <<"z">>),
      Head4("get", <<<<"var", "y">>>>, <<>>, <<>>),
      Head4("p", <<<<"append", "x">>>>, <<"t">>, <<>>),
      Head4("p", <<<<"prepend", "x">>>>, <<"t">>, <<"z">>) }

(***************************************************************************)
(* The walk.  A frame of `walk` is one open call of _process_element for   *)
(* an XML element: the entry it created, the attributes not yet processed, *)
(* the text not yet added and the tail.  var_stack[i] is the scope pushed by the    *)
(* call of walk[i].  acc, plain and sets are history: the text and         *)
(* resolved get values added to the entry so far, whether nothing else was *)
(* added, and the variables bound by set directives in the frame's scope.  *)
(***************************************************************************)
Frame(id, h) == [id |-> id, items |-> h.items, text |-> h.text, tail |-> h.tail,
                 acc |-> "", plain |-> TRUE, sets |-> {}]

Top == walk[Len(walk)]

TextOf(textopt) == IF textopt = <<>> THEN "" ELSE Strip(textopt[1])

\* the innermost scope that defines var, 0 when none does
InnermostDefining(vs, var) ==
    IF \E i \in 1..Len(vs) : var \in DOMAIN vs[i]
    THEN CHOOSE i \in 1..Len(vs) :
            var \in DOMAIN vs[i] /\ \A j \in (i + 1)..Len(vs) : var \notin DOMAIN vs[j]
    ELSE 0

\* history of mod: drop what was written into popped scopes, record a mod,
\* forget a variable whose recorded binding a set overwrites; vs is the
\* stack the directive was resolved on
ModlogAfter(ml, vs, e, ok) ==
    LET kept == {n \in DOMAIN ml : ml[n].level <= Len(vs)}
        ml1  == [n \in kept |-> ml[n]]
    IN  IF ok /\ e.op = "mod"
        THEN LET lvl == InnermostDefining(vs, e.var)
             IN  [n \in kept \cup {e.var} |->
                     IF n = e.var
                     THEN [level |-> lvl, val |-> e.val, depth |-> Len(vs),
                           old |-> vs[lvl][e.var]]
                     ELSE ml1[n]]
        ELSE IF ok /\ e.op = "set" /\ e.var \in kept /\ ml[e.var].level = Len(vs)
        THEN [n \in kept \ {e.var} |-> ml1[n]]
        ELSE ml1

\* the state in parse before the walk (lines 1451-1452)
Init ==
    /\ pc = "init"
    /\ tree = <<EntryNode("_root_", 0, 0, FALSE)>>
    /\ var_stack = <<>>
    /\ walk = <<>>
    /\ nelems = 0
    /\ err = NoErr
    /\ ev = NoEv
    /\ modlog = <<>>
    /\ spec = ""
    /\ ga = [state |-> "idle", array |-> <<>>, err |-> [type |-> "none", at |-> 0,
             val |-> "", hasval |-> FALSE, hasspec |-> FALSE]]
    /\ imp = NoImport
    /\ stk = NoStacks
    /\ tbl = NoTable

\* the frame on top has processed its attributes and its text
InChildLoop == walk # <<>> /\ Top.items = <<>> /\ Top.text = <<>>

\* _process_element(elem, parent_entry) up to the attribute loop:
\* create the entry, _preprocess_element pushes a scope
StartElement(h, maxElems, maxDepth) ==
    /\ \/ pc = "init"
       \/ pc = "walk" /\ InChildLoop /\ Len(walk) < maxDepth
    /\ nelems < maxElems
    /\ LET parent == IF walk = <<>> THEN RootId ELSE Top.id
           id     == Len(tree) + 1
           t1     == NewEntry(tree, h.tag, parent, nelems + 1, FALSE)
       IN  /\ tree' = [t1 EXCEPT ![parent].src = Append(@, SrcItem("child", h.tag, "", id))]
           /\ walk' = Append(walk, Frame(id, h))
    /\ var_stack' = push(var_stack)
    /\ nelems' = nelems + 1
    /\ pc' = "walk"
    /\ ev' = NoEv
    /\ UNCHANGED <<err, modlog, spec, ga, imp, stk, tbl>>

\* one round of the attribute loop: the whole _process_element(attrib,
\* elem_entry, parent_elem=elem) call for the next attribute of the element
Attribute ==
    /\ pc = "walk" /\ walk # <<>>
    /\ Top.items # <<>>
    /\ LET name  == Head(Top.items)[1]
           value == Head(Top.items)[2]
           aid   == Len(tree) + 1
           t1    == NewEntry(tree, name, Top.id, tree[Top.id].line, TRUE)
           t2    == add_text(t1, aid, <<value>>)
           t3    == [t2 EXCEPT ![Top.id].src = Append(@, SrcItem("attr", name, value, aid)),
                               ![aid].src = <<SrcItem("text", "", value, 0)>>]
           post  == _postprocess_element(t3, push(var_stack), aid, Strip(value))
           ok    == post.err.type = "none"
       IN  /\ tree' = post.t
           /\ var_stack' = post.vs
           /\ err' = post.err
           /\ ev' = post.ev
           /\ pc' = IF ok THEN "walk" ELSE "error"
           /\ modlog' = ModlogAfter(modlog, var_stack, post.ev, ok)
           /\ walk' = [walk EXCEPT ![Len(walk)].items = Tail(@),
                                   ![Len(walk)].plain =
                                       @ /\ ~(ok /\ name \in {"append", "prepend"})]
    /\ UNCHANGED <<nelems, spec, ga, imp, stk, tbl>>

\* elem_entry.add_text(elem.text) for an element that has text
Text ==
    /\ pc = "walk" /\ walk # <<>>
    /\ Top.items = <<>> /\ Top.text # <<>>
    /\ LET t1 == add_text(tree, Top.id, Top.text)
       IN  tree' = [t1 EXCEPT ![Top.id].src = Append(@, SrcItem("text", "", Top.text[1], 0))]
    /\ walk' = [walk EXCEPT ![Len(walk)].text = <<>>,
                            ![Len(walk)].acc = @ \o TextOf(Top.text)]
    /\ ev' = NoEv
    /\ UNCHANGED <<pc, var_stack, nelems, err, modlog, spec, ga, imp, stk, tbl>>

\* the end of _process_element for an element: _postprocess_element, then
\* back in the caller: add_text(child.tail) in the parent's loop, or the
\* checks of parse when the element is the document root
EndElement ==
    /\ pc = "walk" /\ InChildLoop
    /\ LET tailopt == Top.tail
           post == _postprocess_element(tree, var_stack, Top.id, Top.acc)
           ok   == post.err.type = "none"
           rest == SubSeq(walk, 1, Len(walk) - 1)
           e    == post.ev
           got  == IF e.op = "get" THEN e.val ELSE ""
           pid  == rest[Len(rest)].id
           t1   == add_text(post.t, pid, tailopt)
       IN  /\ var_stack' = post.vs
           /\ ev' = [e EXCEPT !.acc = IF Top.plain THEN @ ELSE "?"]
           /\ modlog' = ModlogAfter(modlog, pop(var_stack), e, ok)
           /\ walk' = IF ok /\ rest # <<>>
                      THEN [rest EXCEPT
                         ![Len(rest)].acc = @ \o got \o TextOf(tailopt),
                         ![Len(rest)].plain = @ /\ e.op \notin {"append", "prepend"},
                         ![Len(rest)].sets = IF e.op = "set" THEN @ \cup {e.var} ELSE @]
                      ELSE rest
           /\ IF ~ok
              THEN /\ tree' = post.t
                   /\ err' = post.err
                   /\ pc' = "error"
              ELSE IF rest = <<>>
              THEN /\ tree' = post.t
                   /\ err' = ParseChecks(post.t)
                   /\ pc' = IF ParseChecks(post.t).type = "none" THEN "done" ELSE "error"
              ELSE /\ tree' = IF tailopt = <<>> THEN t1
                              ELSE [t1 EXCEPT ![pid].src =
                                       Append(@, SrcItem("tail", "", tailopt[1], 0))]
                   /\ err' = post.err
                   /\ pc' = "walk"
    /\ UNCHANGED <<nelems, spec, ga, imp, stk, tbl>>

Next ==
    \/ \E h \in DocHeads : StartElement(h, MaxElems, MaxDepth)
    \/ Attribute
    \/ Text
    \/ EndElement

Spec == Init /\ [][Next]_vars

NextScope ==
    \/ \E h \in ScopeHeads : StartElement(h, ScopeElems, ScopeDepth)
    \/ Attribute
    \/ Text
    \/ EndElement

SpecScope == Init /\ [][NextScope]_vars

(***************************************************************************)
(* ImportSpreadsheet._get_array(spec).                                     *)
(*                                                                         *)
(* Offsets count the characters before a position: offset i is in front of *)
(* character i + 1.  re.split is modelled as in the interpreters the       *)
(* script is written for (Python 2 and 3 before 3.7, see the pathlib2 and  *)
(* _start_list fallbacks): there an empty match of the pattern does not    *)
(* split, which is what the examples of the docstring of _get_array rely   *)
(* on.                                                                     *)
(***************************************************************************)
MaxSpecLen == 4

DigitChars == "0123456789"
LowerChars == "abcdefghijklmnopqrstuvwxyz"
UpperChars == "ABCDEFGHIJKLMNOPQRSTUVWXYZ"

IsDigit(c) == \E k \in 1..10 : Char(DigitChars, k) = c
IsLower(c) == \E k \in 1..26 : Char(LowerChars, k) = c
IsUpper(c) == \E k \in 1..26 : Char(UpperChars, k) = c

\* int(c) for a digit, ord(c) - ord('a') + 1 for a lower-case letter
DigitVal(c) == (CHOOSE k \in 1..10 : Char(DigitChars, k) = c) - 1
LetterVal(c) == CHOOSE k \in 1..26 : Char(LowerChars, k) = c

RECURSIVE Lower(_)
\* str.lower()
Lower(s) ==
    IF Len(s) = 0 THEN ""
    ELSE LET c == Char(s, 1)
             l == IF IsUpper(c)
                  THEN Char(LowerChars, CHOOSE k \in 1..26 : Char(UpperChars, k) = c)
                  ELSE c
         IN  l \o Lower(SubSeq(s, 2, Len(s)))

RECURSIVE Pow(_, _)
Pow(b, e) == IF e = 0 THEN 1 ELSE b * Pow(b, e - 1)

RECURSIVE CountWs(_, _)
\* the length of the run of whitespace at offset i
CountWs(s, i) ==
    IF i < Len(s) /\ IsSpace(Char(s, i + 1)) THEN 1 + CountWs(s, i + 1) ELSE 0

\* (?<![-:]) and (?![-:]) at an offset
BehindOk(s, i) == i = 0 \/ Char(s, i) \notin {"-", ":"}
AheadOk(s, i) == i = Len(s) \/ Char(s, i + 1) \notin {"-", ":"}

RECURSIVE TrySecondWs(_, _, _)
\* the second \s* of the list pattern, greedy: k characters, then fewer
TrySecondWs(s, pos, k) ==
    IF AheadOk(s, pos + k) THEN pos + k
    ELSE IF k = 0 THEN -1 ELSE TrySecondWs(s, pos, k - 1)

RECURSIVE TryFirstWs(_, _, _)
\* the first \s* of the list pattern, greedy, then ",?" greedy
TryFirstWs(s, i, k) ==
    LET pos   == i + k
        comma == IF pos < Len(s) /\ Char(s, pos + 1) = ","
                 THEN TrySecondWs(s, pos + 1, CountWs(s, pos + 1)) ELSE -1
        plain == TrySecondWs(s, pos, CountWs(s, pos))
    IN  IF comma >= 0 THEN comma
        ELSE IF plain >= 0 THEN plain
        ELSE IF k = 0 THEN -1 ELSE TryFirstWs(s, i, k - 1)

\* the end of the match of '(?<![-:])\s*,?\s*(?![-:])' at offset i, -1 when
\* the pattern does not match there
ListMatchEnd(s, i) == IF BehindOk(s, i) THEN TryFirstWs(s, i, CountWs(s, i)) ELSE -1

RECURSIVE SplitListFrom(_, _, _)
\* the loop of re.split: the search resumes one character further after an
\* empty match, a non-empty match ends a piece
SplitListFrom(s, pos, last) ==
    IF pos > Len(s) THEN <<SubSeq(s, last + 1, Len(s))>>
    ELSE LET e == ListMatchEnd(s, pos)
         IN  IF e <= pos THEN SplitListFrom(s, pos + 1, last)
             ELSE <<SubSeq(s, last + 1, pos)>> \o SplitListFrom(s, e, e)

\* re.split('(?<![-:])\s*,?\s*(?![-:])', spec)
SplitList(s) == SplitListFrom(s, 0, 0)

RECURSIVE SplitRangeFrom(_, _, _)
SplitRangeFrom(s, pos, last) ==
    IF pos >= Len(s) THEN <<SubSeq(s, last + 1, Len(s))>>
    ELSE LET sep == pos + CountWs(s, pos)
         IN  IF sep < Len(s) /\ Char(s, sep + 1) \in {"-", ":"}
             THEN LET e == sep + 1 + CountWs(s, sep + 1)
                  IN  <<SubSeq(s, last + 1, pos)>> \o SplitRangeFrom(s, e, e)
             ELSE SplitRangeFrom(s, pos + 1, last)

\* re_range.split(list_val) with re_range = '\s*[-:]\s*'
SplitRange(s) == SplitRangeFrom(s, 0, 0)

\* the exception of _get_array: Python type, source line of the raise, the
\* value named by the message, whether the message names the spec string
GaErr(type, at, val, hasval, hasspec) ==
    [type |-> type, at |-> at, val |-> val, hasval |-> hasval, hasspec |-> hasspec]
NoGaErr == GaErr("none", 0, "", FALSE, FALSE)

Converted(n, e) == [n |-> n, err |-> e]

RECURSIVE DecimalValue(_)
DecimalValue(s) ==
    IF Len(s) = 0 THEN 0
    ELSE 10 * DecimalValue(SubSeq(s, 1, Len(s) - 1)) + DigitVal(Char(s, Len(s)))

\* int(range_val): surrounding whitespace is ignored, the rest must be digits
IntOf(range_val) ==
    LET t == Strip(range_val)
    IN  IF Len(t) > 0 /\ \A k \in 1..Len(t) : IsDigit(Char(t, k))
        THEN Converted(DecimalValue(t), NoGaErr)
        ELSE Converted(0, GaErr("ValueError", 1280, range_val, TRUE, FALSE))

RECURSIVE LetterLoop(_, _, _, _)
\* the loop over enumerate(tmp) (lines 1271-1274): its first round rebinds
\* tmp to an int, so len(tmp) raises TypeError in a second round
LetterLoop(str, j, tmpIsInt, num) ==
    IF j >= Len(str) THEN Converted(num, NoGaErr)
    ELSE IF tmpIsInt THEN Converted(0, GaErr("TypeError", 1272, "", FALSE, FALSE))
    ELSE LetterLoop(str, j + 1, TRUE,
                    num + Pow(26, Len(str) - j - 1) * LetterVal(Char(str, j + 1)))

\* the conversion of one range value (lines 1261-1288)
ConvertValue(range_val) ==
    LET tmp == Lower(range_val)
        c   == IF Len(tmp) > 0 THEN Char(tmp, 1) ELSE ""
        r   == IF IsLower(c)
               THEN IF IsDigit(c)
                    THEN Converted(0, GaErr("ValueError", 1267, range_val, TRUE, TRUE))
                    ELSE LetterLoop(tmp, 0, FALSE, 0)
               ELSE IntOf(range_val)
    IN  IF r.err.type # "none" THEN r
        ELSE IF r.n < 1 THEN Converted(0, GaErr("ValueError", 1284, range_val, TRUE, TRUE))
        ELSE r

\* range(a, b + 1, inc) and range(a, b - 1, -inc)
RangeUp(a, b, inc) == [k \in 1..((b - a) \div inc + 1) |-> a + (k - 1) * inc]
RangeDown(a, b, inc) == [k \in 1..((a - b) \div inc + 1) |-> a - (k - 1) * inc]

\* abs(x)
Abs(x) == IF x < 0 THEN -x ELSE x

\* the expansion of one list value whose range values converted to ns
ExpandToken(list_val, ns) ==
    IF Len(ns) = 2 \/ Len(ns) = 3
    THEN LET inc == IF Len(ns) = 3 THEN Abs(ns[3]) ELSE 1
         IN  IF ns[1] <= ns[2] THEN [array |-> RangeUp(ns[1], ns[2], inc), err |-> NoGaErr]
             ELSE [array |-> RangeDown(ns[1], ns[2], inc), err |-> NoGaErr]
    ELSE IF Len(ns) = 1 THEN [array |-> ns, err |-> NoGaErr]
    ELSE [array |-> <<>>, err |-> GaErr("ValueError", 1313, list_val, TRUE, TRUE)]

RECURSIVE ConvertAll(_, _)
\* the conversion loop over range_vals: the first failure ends it
ConvertAll(range_vals, done) ==
    IF Len(done) = Len(range_vals) THEN [ns |-> done, err |-> NoGaErr]
    ELSE LET r == ConvertValue(range_vals[Len(done) + 1])
         IN  IF r.err.type # "none" THEN [ns |-> done, err |-> r.err]
             ELSE ConvertAll(range_vals, Append(done, r.n))

RECURSIVE ListLoop(_, _, _)
\* the loop over list_vals
ListLoop(list_vals, k, array) ==
    IF k > Len(list_vals) THEN [array |-> array, err |-> NoGaErr]
    ELSE LET conv == ConvertAll(SplitRange(list_vals[k]), <<>>)
             exp  == ExpandToken(list_vals[k], conv.ns)
         IN  IF conv.err.type # "none" THEN [array |-> <<>>, err |-> conv.err]
             ELSE IF exp.err.type # "none" THEN [array |-> <<>>, err |-> exp.err]
             ELSE ListLoop(list_vals, k + 1, array \o exp.array)

\* _get_array(spec): the array returned, or the exception raised
_get_array(s) == ListLoop(SplitList(s), 1, <<>>)

\* the spec strings _get_array is applied to: every string of at most
\* MaxSpecLen characters of SpecChars, the examples of the docstring and
\* a few longer strings
SpecChars == {"1", "3", "0", "a", "B", ",", "-", ":", " "}

RECURSIVE StringsUpTo(_)
StringsUpTo(n) ==
    IF n = 0 THEN {""}
    ELSE LET shorter == StringsUpTo(n - 1)
         IN  shorter \cup {s \o c : s \in shorter, c \in SpecChars}

DocExamples == {"a", "a:6", "2,d,7", "2,4-6", "2:12:4", "2,4,2", "12:2:4", "aa", "az", "ba",
                "1:3:1:1", "3 : 1 , a"}

SpecStrings == StringsUpTo(MaxSpecLen) \cup DocExamples

InitRange ==
    /\ pc = "init"
    /\ tree = <<EntryNode("_root_", 0, 0, FALSE)>>
    /\ var_stack = <<>>
    /\ walk = <<>>
    /\ nelems = 0
    /\ err = NoErr
    /\ ev = NoEv
    /\ modlog = <<>>
    /\ spec \in SpecStrings
    /\ ga = [state |-> "idle", array |-> <<>>, err |-> NoGaErr]
    /\ imp = NoImport
    /\ stk = NoStacks
    /\ tbl = NoTable

\* a call of _get_array(spec)
GetArray ==
    /\ ga.state = "idle"
    /\ ga' = [state |-> "done", array |-> _get_array(spec).array,
              err |-> _get_array(spec).err]
    /\ UNCHANGED <<spec, treevars, imp, stk, tbl>>

NextRange == GetArray

SpecRange == InitRange /\ [][NextRange]_vars

(***************************************************************************)
(* ImportSpreadsheet / ImportCSV: the tabular importer.                    *)
(*                                                                         *)
(* imp.data is the content of the CSV file, one string per cell.  read()   *)
(* wraps every cell in a PreprocessorEntry holding one PreprocessorValue;  *)
(* a cell of the returned array is named by its position <<r, c>> in       *)
(* imp.data.                                                               *)
(***************************************************************************)
ImpErr(type, at, args) == [type |-> type, at |-> at, args |-> args]

\* list(range(1, n + 1))
OneTo(n) == [k \in 1..n |-> k]

\* str(n) for the numbers of the model
Str(n) == IF n \in 0..9 THEN Char(DigitChars, n + 1) ELSE "10+"

\* str.find(key), counted from 0, -1 when key does not occur
Find(val, key) ==
    LET hits == {k \in 0..(Len(val) - Len(key)) : SubSeq(val, k + 1, k + Len(key)) = key}
    IN  IF hits = {} THEN -1 ELSE CHOOSE k \in hits : \A h \in hits : k <= h

\* pattern.match(val) for a pattern of literal characters and ".": the match
\* is anchored at the start of val
RegexMatch(pattern, val) ==
    /\ Len(val) >= Len(pattern)
    /\ \A k \in 1..Len(pattern) : Char(pattern, k) \in {".", Char(val, k)}

\* the cells scanned for candidate x: the line x crossed with the indices
\* `others` of the other dimension
ScanOrder(dim, x, others) ==
    [k \in 1..Len(others) |-> IF dim = "row" THEN <<x, others[k]>> ELSE <<others[k], x>>]

RECURSIVE ScanCells(_, _, _, _, _)
\* the inner loop of a key filter (lines 1119-1133, 1171-1181): the cells
\* are read in order until one matches.  self.data[r-1][c-1] raises the
\* IndexError of Python outside the grid; get_values raises AttributeError
\* (line 1987) for the PreprocessorValue of an empty cell, which
\* PreprocessorValue.__init__ leaves without a value attribute.
ScanCells(data, cells, k, key, at) ==
    IF k > Len(cells) THEN [match |-> FALSE, err |-> NoImpErr]
    ELSE LET r == cells[k][1]
             c == cells[k][2]
         IN  IF r > Len(data) \/ c > Len(data[r])
             THEN [match |-> FALSE,
                   err |-> ImpErr("IndexError", at, <<"list index out of range">>)]
             ELSE IF data[r][c] = ""
             THEN [match |-> FALSE, err |-> ImpErr("AttributeError", 1987, <<>>)]
             ELSE IF (IF key.re THEN RegexMatch(key.key, data[r][c])
                                ELSE Find(data[r][c], key.key) > -1)
             THEN [match |-> TRUE, err |-> NoImpErr]
             ELSE ScanCells(data, cells, k + 1, key, at)

RECURSIVE FilterLoop(_, _, _, _, _, _, _, _, _)
\* the end of one candidate of a key filter (lines 1135-1139, 1183-1187): a
\* candidate without a match is removed from valid.  sc is the result of
\* scanning the candidate visit[k]
FilterStep(data, dim, visit, k, others, key, at, valid, any, sc) ==
    IF sc.err.type # "none" THEN [valid |-> valid, any |-> any, err |-> sc.err]
    ELSE IF sc.match
    THEN FilterLoop(data, dim, visit, k + 1, others, key, at, valid, TRUE)
    ELSE FilterLoop(data, dim, visit, k + 1, others, key, at,
                    RemoveFirst(valid, visit[k]), any)

\* the loop over the candidates of one key filter (lines 1114-1139,
\* 1166-1187)
FilterLoop(data, dim, visit, k, others, key, at, valid, any) ==
    IF k > Len(visit) THEN [valid |-> valid, any |-> any, err |-> NoImpErr]
    ELSE FilterStep(data, dim, visit, k, others, key, at, valid, any,
                    ScanCells(data, ScanOrder(dim, visit[k], others), 1, key, at))

\* max(n, 1) as written in lines 1087-1089, 1151-1153
AtLeastOne(n) == IF n < 1 THEN 1 ELSE n

\* rk["col"] / ck["row"], or every index of the other dimension when it is
\* None (lines 1109-1111, 1161-1163)
KeyOthers(key, n) == IF key.hasother THEN key.other ELSE OneTo(n)

RECURSIVE RowKeyLoop(_, _)
\* lines 1141-1146 for the row key k, f being the result of its filter loop
RowKeyStep(s, k, f) ==
    IF f.err.type # "none" THEN [s EXCEPT !.err = f.err]
    ELSE IF ~f.any
    THEN [s EXCEPT !.rows = f.valid,
                   !.err = ImpErr("KeyError", 1146,
                                  <<"no match found", "row key", s.row_keys[k].key>>)]
    ELSE RowKeyLoop([s EXCEPT !.rows = f.valid], k + 1)

\* lines 1105-1146
RowKeyLoop(s, k) ==
    IF k > Len(s.row_keys) THEN s
    ELSE RowKeyStep(s, k,
                    FilterLoop(s.data, "row", s.rows, 1,
                               KeyOthers(s.row_keys[k], Len(s.data[1])),
                               s.row_keys[k], 1120, s.rows, FALSE))

RECURSIVE ColKeyLoop(_, _)
\* lines 1189-1194 for the column key k.  The raise of line 1194 evaluates
\* str(rk.key): rk is the loop variable of the row key loop, a dict without
\* attribute key (AttributeError), or unbound when there was no row key
\* (UnboundLocalError)
ColKeyStep(s, k, f) ==
    IF f.err.type # "none" THEN [s EXCEPT !.err = f.err]
    ELSE IF ~f.any
    THEN [s EXCEPT !.cols = f.valid,
                   !.err = IF Len(s.row_keys) = 0
                           THEN ImpErr("UnboundLocalError", 1194, <<>>)
                           ELSE ImpErr("AttributeError", 1194, <<>>)]
    ELSE ColKeyLoop([s EXCEPT !.cols = f.valid], k + 1)

\* lines 1157-1194
ColKeyLoop(s, k) ==
    IF k > Len(s.col_keys) THEN s
    ELSE ColKeyStep(s, k,
                    FilterLoop(s.data, "col", s.cols, 1,
                               KeyOthers(s.col_keys[k], Len(s.data)),
                               s.col_keys[k], 1172, s.cols, FALSE))

RECURSIVE RetRow(_, _, _, _, _)
\* lines 1211-1216 for row r, acc being ret[i] so far
RetRow(data, r, cols, k, acc) ==
    IF k > Len(cols) THEN [row |-> acc, err |-> NoImpErr]
    ELSE IF cols[k] > Len(data[r])
    THEN [row |-> acc,
          err |-> ImpErr("IndexError", 1214, <<"index out of range", "column", Str(cols[k])>>)]
    ELSE RetRow(data, r, cols, k + 1, Append(acc, <<r, cols[k]>>))

RECURSIVE RetLoop(_, _, _, _, _)
\* line 1216 done for row rows[i]: row is the result of its column loop
RetNext(data, rows, cols, i, acc, row) ==
    IF row.err.type # "none" THEN [ret |-> <<>>, err |-> row.err]
    ELSE RetLoop(data, rows, cols, i + 1, Append(acc, row.row))

\* lines 1204-1216, acc being ret so far
RetLoop(data, rows, cols, i, acc) ==
    IF i > Len(rows) THEN [ret |-> acc, err |-> NoImpErr]
    ELSE IF rows[i] > Len(data)
    THEN [ret |-> <<>>,
          err |-> ImpErr("IndexError", 1208, <<"index out of range", "row", Str(rows[i])>>)]
    ELSE RetNext(data, rows, cols, i, acc, RetRow(data, rows[i], cols, 1, <<>>))

\* lines 1073-1081: rows and cols default to every row and column
DefaultLines(s) ==
    [s EXCEPT !.rows = IF Len(s.rows) = 0 THEN OneTo(Len(s.data)) ELSE s.rows,
              !.cols = IF Len(s.cols) = 0
                       THEN (IF Len(s.data) > 0 THEN OneTo(Len(s.data[1])) ELSE <<>>)
                       ELSE s.cols]

\* lines 1084-1097: the counts kept for error messages
InitialCounts(s) ==
    [s EXCEPT !.num_row = IF Len(s.row_keys) = 0 THEN 1 ELSE AtLeastOne(Len(s.rows)),
              !.num_col = IF Len(s.col_keys) = 0 THEN 1 ELSE AtLeastOne(Len(s.cols))]

\* line 1218: return ret, or the exception of the loop that builds it
Returned(s, r) == [s EXCEPT !.ret = r.ret, !.err = r.err]

\* lines 1198-1218, after the column key loop left the importer s
AfterColKeys(s) ==
    IF s.err.type # "none" THEN s
    ELSE Returned([s EXCEPT !.num_col = AtLeastOne(Len(s.cols))],
                  RetLoop(s.data, s.rows, s.cols, 1, <<>>))

\* lines 1151-1194, after the row key loop left the importer s
AfterRowKeys(s) ==
    IF s.err.type # "none" THEN s
    ELSE AfterColKeys(ColKeyLoop([s EXCEPT !.num_row = AtLeastOne(Len(s.rows))], 1))

\* lines 1100-1146
CheckData(s) ==
    IF Len(s.data) < 1 \/ Len(s.data[1]) < 1
    THEN [s EXCEPT !.err = ImpErr("ValueError", 1101, <<"no data found">>)]
    ELSE AfterRowKeys(RowKeyLoop(s, 1))

\* ImportSpreadsheet.get_data on the importer s: the importer afterwards,
\* with the array returned (ret) or the exception raised (err)
get_data(s) == CheckData(InitialCounts(DefaultLines(s)))

\* an exception of _get_array as it leaves the importer
FromGaErr(e) == ImpErr(e.type, e.at, IF e.hasval THEN <<e.val>> ELSE <<>>)

\* the assignment self.rows = a in place of +=: a later spec would replace
\* the earlier ones
Extend_replace(s, dim, a) ==
    IF a.err.type # "none" THEN [s EXCEPT !.err = FromGaErr(a.err)]
    ELSE IF dim = "row" THEN [s EXCEPT !.rows = a.array]
    ELSE [s EXCEPT !.cols = a.array]

\* self.rows += a, a being the result of _get_array (lines 939, 967)
Extend(s, dim, a) ==
    IF a.err.type # "none" THEN [s EXCEPT !.err = FromGaErr(a.err)]
    ELSE IF dim = "row" THEN [s EXCEPT !.rows = s.rows \o a.array]
    ELSE [s EXCEPT !.cols = s.cols \o a.array]

\* add_row(row): self.rows += self._get_array(row)
add_row(s, row) == Extend(s, "row", _get_array(row))

\* add_col(col): self.cols += self._get_array(col)
add_col(s, col) == Extend(s, "col", _get_array(col))

\* one entry of row_keys / col_keys: "other" is the col (row) spec of the
\* filter, expanded by _get_array.  The dict is appended empty and filled item
\* by item (lines 996-1010): built names the last item set before the call
\* returned ("all") or raised ("re", "key")
KeyEntry(re, key, hasother, other, built) ==
    [re |-> re, key |-> key, hasother |-> hasother, other |-> other, built |-> built]

\* the entry built from the expansion a of the other dimension's spec
KeyOf(key, a) ==
    IF a.err.type # "none"
    THEN [entry |-> KeyEntry(FALSE, key, FALSE, <<>>, "key"), err |-> FromGaErr(a.err)]
    ELSE [entry |-> KeyEntry(FALSE, key, TRUE, a.array, "all"), err |-> NoImpErr]

\* the tail of add_row_key / add_col_key (lines 1006-1010, 1050-1054):
\* other is <<>> for None, <<spec>> for a spec string
KeyWithOther(key, other) ==
    IF other = <<>> THEN [entry |-> KeyEntry(FALSE, key, FALSE, <<>>, "all"), err |-> NoImpErr]
    ELSE KeyOf(key, _get_array(other[1]))

\* self.row_keys.append({}) / self.col_keys.append({}) and the items set in
\* it, with the exception raised while they were set
PutKey(s, dim, k) ==
    IF dim = "row" THEN [s EXCEPT !.row_keys = Append(s.row_keys, k.entry), !.err = k.err]
    ELSE [s EXCEPT !.col_keys = Append(s.col_keys, k.entry), !.err = k.err]

\* add_row_key(row_key, col, re).  The parameter re hides the module re, so
\* with a true re (True, or the string of the re attribute) the call
\* re.compile(row_key) of line 1002 raises AttributeError.
add_row_key(s, row_key, col, re) ==
    IF re THEN PutKey(s, "row", [entry |-> KeyEntry(TRUE, "", FALSE, <<>>, "re"),
                                 err |-> ImpErr("AttributeError", 1002, <<>>)])
    ELSE PutKey(s, "row", KeyWithOther(row_key, col))

\* add_col_key(col_key, row, re), with the same hidden module at line 1046
add_col_key(s, col_key, row, re) ==
    IF re THEN PutKey(s, "col", [entry |-> KeyEntry(TRUE, "", FALSE, <<>>, "re"),
                                 err |-> ImpErr("AttributeError", 1046, <<>>)])
    ELSE PutKey(s, "col", KeyWithOther(col_key, row))

\* the state an operation leaves: an exception that nothing catches ends it
Settle(s, last) ==
    [s EXCEPT !.pc = IF @ = "config" /\ s.err.type # "none" THEN "error" ELSE @,
              !.nchild = @ + 1,
              !.last = last]

(***************************************************************************)
(* Inputs of the importer: CSV files and the arguments of its methods.     *)
(***************************************************************************)
MaxCalls == 3
MaxImportChildren == 3

\* CSV contents: a grid whose second row alone contains Q3, a grid with an
\* empty cell, an empty file, a grid with rows of different lengths, and a
\* grid in which two rows and both columns contain Q3
Grids ==
    { << <<"a", "b">>, <<"c", "Q3">>, <<"e", "f">> >>,
      << <<"", "Q3">>, <<"c", "d">> >>,
      << >>,
      << <<"Q3">>, <<"c", "xQ3">> >>,
      << <<"Q3", "c">>, <<"c", "Q3x">> >> }

SheetSpecs == {"2,1,2", "3"}
KeyPatterns == {"Q3", "c"}
OtherSpecs == {<<>>, <<"2">>}

\* ImportCSV(filename): the importer before any add_* call
NewImporter(g) == [NoImport EXCEPT !.pc = "config", !.data = g]

InitSheet ==
    /\ pc = "init"
    /\ tree = <<EntryNode("_root_", 0, 0, FALSE)>>
    /\ var_stack = <<>>
    /\ walk = <<>>
    /\ nelems = 0
    /\ err = NoErr
    /\ ev = NoEv
    /\ modlog = <<>>
    /\ spec = ""
    /\ ga = [state |-> "idle", array |-> <<>>, err |-> NoGaErr]
    /\ imp \in {NewImporter(g) : g \in Grids}
    /\ stk = NoStacks
    /\ tbl = NoTable

Configuring(max) == imp.pc = "config" /\ imp.nchild < max

AddRow ==
    /\ Configuring(MaxCalls)
    /\ \E sp \in SheetSpecs : imp' = Settle(add_row(imp, sp), "row")
    /\ UNCHANGED <<treevars, gavars, stk, tbl>>

AddCol ==
    /\ Configuring(MaxCalls)
    /\ \E sp \in SheetSpecs : imp' = Settle(add_col(imp, sp), "col")
    /\ UNCHANGED <<treevars, gavars, stk, tbl>>

AddRowKey ==
    /\ Configuring(MaxCalls)
    /\ \E key \in KeyPatterns, col \in OtherSpecs, re \in BOOLEAN :
          imp' = Settle(add_row_key(imp, key, col, re), IF re THEN "row_key_re" ELSE "row_key")
    /\ UNCHANGED <<treevars, gavars, stk, tbl>>

AddColKey ==
    /\ Configuring(MaxCalls)
    /\ \E key \in KeyPatterns, row \in OtherSpecs, re \in BOOLEAN :
          imp' = Settle(add_col_key(imp, key, row, re), IF re THEN "col_key_re" ELSE "col_key")
    /\ UNCHANGED <<treevars, gavars, stk, tbl>>

\* the importer after read() returned or raised
Finished(s) ==
    [s EXCEPT !.pc = IF s.err.type # "none" THEN "error" ELSE "done", !.last = "read"]

\* read(): the file is loaded and get_data() is returned
Read ==
    /\ imp.pc = "config"
    /\ imp' = Finished(get_data(imp))
    /\ UNCHANGED <<treevars, gavars, stk, tbl>>

NextSheet == AddRow \/ AddCol \/ AddRowKey \/ AddColKey \/ Read

SpecSheet == InitSheet /\ [][NextSheet]_vars

(***************************************************************************)
(* PresentationCreator._import on a CSV file: the loop over the children   *)
(* of the import entry, the read with its captured exceptions, the size    *)
(* normalisation, and the end of create_presentation.                      *)
(***************************************************************************)
\* an attribute or child entry of the import: its tag and its joined values
Attr(tag, text) == [tag |-> tag, text |-> text]

Child(tag, text, attrs) == [tag |-> tag, text |-> text, attrs |-> attrs]

\* the children an import entry is given
ImportChildren ==
    { Child("num_row", "3", <<>>),
      Child("num_col", "2", <<>>),
      Child("row", "2,1", <<>>),
      Child("row", "5", <<>>),
      Child("col", "2", <<>>),
      Child("col", "3", <<>>),
      Child("row_key", "Q3", <<>>),
      Child("row_key", "Q9", <<>>),
      Child("row_key", "Q3", <<Attr("col", "1")>>),
      Child("row_key", "Q.", <<Attr("re", "1")>>),
      Child("row_key", "Q3", <<Attr("re", "")>>),
      Child("row_key", "Q3", <<Attr("foo", "1")>>),
      Child("col_key", "Q3", <<>>),
      Child("col_key", "Q3", <<Attr("row", "2")>>),
      Child("sheet", "s1", <<>>),
      Child("foo", "1", <<>>) }

RECURSIVE AttrLoop(_, _, _, _, _)
\* the loop over the attributes of a row_key / col_key child (lines 763-774,
\* 785-796): other is the col (row) attribute, re the re attribute
AttrLoop(attrs, k, othertag, at, acc) ==
    IF k > Len(attrs) THEN acc
    ELSE IF attrs[k].tag = othertag
    THEN AttrLoop(attrs, k + 1, othertag, at, [acc EXCEPT !.other = <<attrs[k].text>>])
    ELSE IF attrs[k].tag = "re"
    THEN AttrLoop(attrs, k + 1, othertag, at, [acc EXCEPT !.re = attrs[k].text])
    ELSE [acc EXCEPT !.err = ImpErr("ValueError", at, <<attrs[k].tag>>)]

\* col = None; re = False (lines 759-760, 781-782)
NoAttrs == [other |-> <<>>, re |-> "", err |-> NoImpErr]

\* lines 776-777: importer.add_row_key(text, col=col, re=re); a non-empty
\* string is a true re
RowKeyCall(s, text, a) ==
    IF a.err.type # "none" THEN [s EXCEPT !.err = a.err]
    ELSE add_row_key(s, text, a.other, a.re # "")

\* lines 798-799: importer.add_col_key(text, col=col, re=re).  The branch
\* assigned row, not col: col is the local of an earlier row_key child, and
\* add_col_key has no parameter col (TypeError), or it is unbound
\* (UnboundLocalError)
ColKeyCall(s, a) ==
    IF a.err.type # "none" THEN [s EXCEPT !.err = a.err]
    ELSE IF s.col_bound THEN [s EXCEPT !.err = ImpErr("TypeError", 798, <<>>)]
    ELSE [s EXCEPT !.err = ImpErr("UnboundLocalError", 799, <<>>)]

\* one iteration of the loop over entry.data (lines 736-808) for an entry
\* child; ImportCSV has no add_sheet
ImportStep(s, child) ==
    IF child.tag = "num_row" THEN [s EXCEPT !.x_num_row = <<child.text>>]
    ELSE IF child.tag = "num_col" THEN [s EXCEPT !.x_num_col = <<child.text>>]
    ELSE IF child.tag = "row" THEN add_row(s, child.text)
    ELSE IF child.tag = "col" THEN add_col(s, child.text)
    ELSE IF child.tag = "row_key"
    THEN RowKeyCall([s EXCEPT !.col_bound = TRUE], child.text,
                    AttrLoop(child.attrs, 1, "col", 771, NoAttrs))
    ELSE IF child.tag = "col_key"
    THEN ColKeyCall(s, AttrLoop(child.attrs, 1, "row", 793, NoAttrs))
    ELSE IF child.tag = "sheet" THEN [s EXCEPT !.err = ImpErr("AttributeError", 803, <<>>)]
    ELSE [s EXCEPT !.err = ImpErr("ValueError", 807, <<child.tag>>)]

\* '{} "{}": {}'.format(err.args[1], err.args[2], err.args[0])
ErrorMessage(args) == args[2] \o " \"" \o args[3] \o "\": " \o args[1]

\* entries = [[]] when read() raised
NoEntries == << <<>> >>

\* lines 812-833: the exceptions of importer.read() that _import catches are
\* recorded in invalid_imports; formatting an IndexError or KeyError with
\* fewer than three arguments raises IndexError in the handler
Captured(s) ==
    IF s.err.type = "none" THEN s
    ELSE IF s.err.type \in {"IndexError", "KeyError"}
    THEN (IF Len(s.err.args) < 3
          THEN [s EXCEPT !.err = ImpErr("IndexError", 820, <<"tuple index out of range">>)]
          ELSE [s EXCEPT !.err = NoImpErr, !.ret = NoEntries,
                         !.invalid = Append(@, ErrorMessage(s.err.args))])
    ELSE IF s.err.type = "ValueError"
    THEN [s EXCEPT !.err = NoImpErr, !.ret = NoEntries,
                   !.invalid = Append(@, s.err.args[1])]
    ELSE s

\* the "N/A" entry tmp of lines 851-852, as a cell of the returned grid
NotAvailable == <<0, 0>>

\* lines 855-863 with integer counts
Padded(entries, num_row, num_col) ==
    [i \in 1..num_row |->
        [j \in 1..num_col |->
            IF Len(entries) >= i /\ Len(entries[i]) >= j THEN entries[i][j]
            ELSE NotAvailable]]

\* lines 836-888.  An explicit num_row / num_col is the string of the child
\* entry, and range(0, num_row) raises TypeError for it.  The messages of the
\* mismatch checks (lines 868-888) are built and dropped: the statements
\* that would record them are comments.
Normalized(s) ==
    IF s.err.type # "none" THEN s
    ELSE IF s.x_num_row # <<>> THEN [s EXCEPT !.err = ImpErr("TypeError", 856, <<>>)]
    ELSE IF s.x_num_col # <<>> THEN [s EXCEPT !.err = ImpErr("TypeError", 859, <<>>)]
    ELSE [s EXCEPT !.grid = Padded(s.ret, s.num_row, s.num_col)]

\* one child of the import entry is processed
ImportChild ==
    /\ Configuring(MaxImportChildren)
    /\ \E child \in ImportChildren : imp' = Settle(ImportStep(imp, child), child.tag)
    /\ UNCHANGED <<treevars, gavars, stk, tbl>>

\* the child loop is over: read, capture, normalise, return (lines 812-895)
ImportRead ==
    /\ imp.pc = "config"
    /\ imp' = Finished(Normalized(Captured(get_data(imp))))
    /\ UNCHANGED <<treevars, gavars, stk, tbl>>

\* create_presentation after its imports returned: the invalid imports are
\* reported and the presentation is saved (lines 311-319)
Save ==
    /\ imp.pc = "done"
    /\ imp' = [imp EXCEPT !.pc = "saved", !.last = "save"]
    /\ UNCHANGED <<treevars, gavars, stk, tbl>>

NextImport == ImportChild \/ ImportRead \/ Save

SpecImport == InitSheet /\ [][NextImport]_vars

(***************************************************************************)
(* The VariableStack class of pptx-preprocessor.py, and the two classes    *)
(* driven side by side by one sequence of calls.  A call that raises       *)
(* leaves its stack as it was.                                             *)
(***************************************************************************)
MaxStackOps == 5
MaxStackDepth == 3

StackVars == {"x", "y"}
StackVals == {"a", "b"}

pre_push(vs) == Append(vs, EmptyDict)

pre_pop(vs) == SubSeq(vs, 1, Len(vs) - 1)

pre_set(vs, var, val) == [vs EXCEPT ![Len(vs)] = DictSet(@, var, val)]

RECURSIVE PreFindFrom(_, _, _)
PreFindFrom(vs, var, i) ==
    IF i > Len(vs) THEN 0
    ELSE IF var \in DOMAIN vs[i] THEN i ELSE PreFindFrom(vs, var, i + 1)

\* find_dict of pptx-preprocessor.py: "for var_dict in self.var_stack", from
\* the bottom of the stack up; 0 when it raises ValueError
pre_find_dict(vs, var) == PreFindFrom(vs, var, 1)

pre_mod(vs, var, val) == [vs EXCEPT ![pre_find_dict(vs, var)] = DictSet(@, var, val)]

pre_get(vs, var) == vs[pre_find_dict(vs, var)][var]

\* the stacks and the outcomes after one call made on both objects
Called(op, var, c, p, gc, gp) ==
    [stk EXCEPT !.creator = c, !.preprocessor = p, !.nops = @ + 1,
                !.op = op, !.var = var, !.got = <<gc, gp>>]

Done == Outcome("none", "")

Calling == stk.pc = "live" /\ stk.nops < MaxStackOps

InitStacks ==
    /\ pc = "init"
    /\ tree = <<EntryNode("_root_", 0, 0, FALSE)>>
    /\ var_stack = <<>>
    /\ walk = <<>>
    /\ nelems = 0
    /\ err = NoErr
    /\ ev = NoEv
    /\ modlog = <<>>
    /\ spec = ""
    /\ ga = [state |-> "idle", array |-> <<>>, err |-> NoGaErr]
    /\ imp = NoImport
    /\ stk = [NoStacks EXCEPT !.pc = "live"]
    /\ tbl = NoTable

StackPush ==
    /\ Calling /\ Len(stk.creator) < MaxStackDepth
    /\ stk' = Called("push", "", push(stk.creator), pre_push(stk.preprocessor), Done, Done)
    /\ UNCHANGED <<treevars, gavars, imp, tbl>>

\* list.pop() of an empty list raises IndexError
StackPop ==
    /\ Calling
    /\ stk' = Called("pop", "",
                     IF stk.creator = <<>> THEN stk.creator ELSE pop(stk.creator),
                     IF stk.preprocessor = <<>> THEN stk.preprocessor
                     ELSE pre_pop(stk.preprocessor),
                     IF stk.creator = <<>> THEN Outcome("IndexError", "") ELSE Done,
                     IF stk.preprocessor = <<>> THEN Outcome("IndexError", "") ELSE Done)
    /\ UNCHANGED <<treevars, gavars, imp, tbl>>

\* var_stack[-1] of an empty list raises IndexError
StackSet ==
    /\ Calling
    /\ \E var \in StackVars, val \in StackVals :
          stk' = Called("set", var,
                        IF stk.creator = <<>> THEN stk.creator
                        ELSE set(stk.creator, var, val),
                        IF stk.preprocessor = <<>> THEN stk.preprocessor
                        ELSE pre_set(stk.preprocessor, var, val),
                        IF stk.creator = <<>> THEN Outcome("IndexError", "") ELSE Done,
                        IF stk.preprocessor = <<>> THEN Outcome("IndexError", "") ELSE Done)
    /\ UNCHANGED <<treevars, gavars, imp, tbl>>

StackMod ==
    /\ Calling
    /\ \E var \in StackVars, val \in StackVals :
          stk' = Called("mod", var,
                        IF find_dict(stk.creator, var) = 0 THEN stk.creator
                        ELSE mod(stk.creator, var, val),
                        IF pre_find_dict(stk.preprocessor, var) = 0 THEN stk.preprocessor
                        ELSE pre_mod(stk.preprocessor, var, val),
                        IF find_dict(stk.creator, var) = 0
                        THEN Outcome("ValueError", "") ELSE Done,
                        IF pre_find_dict(stk.preprocessor, var) = 0
                        THEN Outcome("ValueError", "") ELSE Done)
    /\ UNCHANGED <<treevars, gavars, imp, tbl>>

StackGet ==
    /\ Calling
    /\ \E var \in StackVars :
          stk' = Called("get", var, stk.creator, stk.preprocessor,
                        IF find_dict(stk.creator, var) = 0
                        THEN Outcome("ValueError", "")
                        ELSE Outcome("none", get(stk.creator, var)),
                        IF pre_find_dict(stk.preprocessor, var) = 0
                        THEN Outcome("ValueError", "")
                        ELSE Outcome("none", pre_get(stk.preprocessor, var)))
    /\ UNCHANGED <<treevars, gavars, imp, tbl>>

NextStacks == StackPush \/ StackPop \/ StackSet \/ StackMod \/ StackGet

SpecStacks == InitStacks /\ [][NextStacks]_vars

(***************************************************************************)
(* PresentationCreator._ph_table.  The variable tree holds the entry tree  *)
(* the preprocessor handed over: object 1 is the placeholder entry and     *)
(* object 2 the table entry that _ph_table is called with.                 *)
(***************************************************************************)
MaxTableChildren == 2
MaxRowItems == 2
MaxRuns == 2

TableId == 2

\* the value None of an empty slot of the local table
None == 0

\* CSV files on disk: a full grid, a single row, a single empty cell
CsvFiles == {"a.csv", "b.csv", "c.csv"}

FileData(name) ==
    IF name = "a.csv" THEN << <<"a", "b">>, <<"c", "d">> >>
    ELSE IF name = "b.csv" THEN << <<"e", "f">> >>
    ELSE << <<"">> >>

\* the description of an element under a row, and of an element under the table
Item(k, text, attrs) == [k |-> k, text |-> text, attrs |-> attrs, items |-> <<>>]

Row(items) == [k |-> "row", text |-> "", attrs |-> <<>>, items |-> items]

RowItems ==
    { Item("cell", "1", <<>>),
      Item("cell", "", <<>>),
      Item("import", "a.csv", <<>>),
      Item("import", "a.csv", <<Attr("col", "2")>>),
      Item("import", "b.csv", <<>>),
      Item("import", "c.csv", <<>>),
      Item("value", "t", <<>>),
      Item("foo", "", <<>>) }

SeqsUpTo(S, n) == UNION {[1..m -> S] : m \in 0..n}

TableChildren ==
    {Row(items) : items \in SeqsUpTo(RowItems, MaxRowItems)}
        \cup {it \in RowItems : it.k # "cell"}

TableDocs == SeqsUpTo(TableChildren, MaxTableChildren)

\* PreprocessorEntry(tag, parent=parent) followed by add_text(text)
TextEntry(t, tag, parent, text) == add_text(NewEntry(t, tag, parent, 0, FALSE), Len(t) + 1, <<text>>)

RECURSIVE AddAttrs(_, _, _, _)
AddAttrs(t, id, attrs, k) ==
    IF k > Len(attrs) THEN t
    ELSE AddAttrs(TextEntry(t, attrs[k].tag, id, attrs[k].text), id, attrs, k + 1)

RECURSIVE AddItems(_, _, _, _)
\* the objects the preprocessor builds for the elements ds under parent
AddItem(t, parent, d) ==
    IF d.k = "value" THEN add_value(t, parent, d.text)
    ELSE IF d.k = "row" THEN AddItems(NewEntry(t, "row", parent, 0, FALSE), Len(t) + 1, d.items, 1)
    ELSE AddAttrs(TextEntry(t, d.k, parent, d.text), Len(t) + 1, d.attrs, 1)

AddItems(t, parent, ds, k) ==
    IF k > Len(ds) THEN t
    ELSE AddItems(AddItem(t, parent, ds[k]), parent, ds, k + 1)

\* the entry tree of a placeholder that holds the table element described by doc
BuildTable(doc) ==
    AddItems(NewEntry(<<EntryNode("body", 0, 0, FALSE)>>, "table", RootId, 0, FALSE),
             TableId, doc, 1)

(***************************************************************************)
(* _import(entry) on the entry tree.                                       *)
(***************************************************************************)
EntryChildren(t, id) == SelectSeq(t[id].data, LAMBDA c : t[c].which = "entry")

RECURSIVE AttrsOf(_, _, _, _)
AttrsOf(t, cs, k, acc) ==
    IF k > Len(cs) THEN acc
    ELSE AttrsOf(t, cs, k + 1, Append(acc, Attr(t[cs[k]].tag, get_values(t, cs[k]).val)))

\* a child entry of the import as the loop of lines 736-808 reads it
ChildOf(t, c) == Child(t[c].tag, get_values(t, c).val, AttrsOf(t, EntryChildren(t, c), 1, <<>>))

RECURSIVE ChildLoop(_, _, _, _)
\* lines 736-808: the loop over entry.data, left by the first exception
ChildLoop(s, t, cs, k) ==
    IF k > Len(cs) \/ s.err.type # "none" THEN s
    ELSE ChildLoop(ImportStep(s, ChildOf(t, cs[k])), t, cs, k + 1)

\* PreprocessorEntry(entry.tag, parent=entry, elem=entry.elem, value=val):
\* the new entry holds one value and is appended to the data of entry
CellValue(t, val) == NewValue(t, Len(t), val, "import")

NewCell(t, e, val) == CellValue(NewEntry(t, t[e].tag, e, t[e].line, FALSE), val)

RECURSIVE ReadRow(_, _, _, _, _)
\* ImportCSV.read, one row of the file: ids are the entries built for it
ReadRow(t, e, row, c, ids) ==
    IF c > Len(row) THEN [t |-> t, ids |-> ids]
    ELSE ReadRow(NewCell(t, e, row[c]), e, row, c + 1, Append(ids, Len(t) + 1))

RECURSIVE ReadFile(_, _, _, _, _)
ReadFileNext(e, g, r, acc, rr) == ReadFile(rr.t, e, g, r + 1, Append(acc, rr.ids))

\* ImportCSV.read, lines 1399-1411: one entry per cell of the file
ReadFile(t, e, g, r, acc) ==
    IF r > Len(g) THEN [t |-> t, ids |-> acc]
    ELSE ReadFileNext(e, g, r, acc, ReadRow(t, e, g[r], 1, <<>>))

\* what _import leaves: the entry tree, the grid of entries it returns, the
\* exception it raised, the messages added to invalid_imports
Imported(t, grid, e, invalid) == [t |-> t, grid |-> grid, err |-> e, invalid |-> invalid]

\* the entries of the returned grid: a cell of the file, or the N/A entry tmp
EntriesOf(grid, ids, tmp) ==
    [i \in 1..Len(grid) |->
        [j \in 1..Len(grid[i]) |->
            IF grid[i][j] = NotAvailable THEN tmp
            ELSE ids[grid[i][j][1]][grid[i][j][2]]]]

\* lines 855-895, after the N/A entry tmp was built
AfterTmp(t, tmp, ids, s) ==
    IF s.err.type # "none" THEN Imported(t, <<>>, s.err, s.invalid)
    ELSE Imported(t, EntriesOf(s.grid, ids, tmp), NoImpErr, s.invalid)

\* lines 812-852, after importer.read() built the entries ids in the tree t
AfterRead(t, ids, e, s) ==
    IF s.err.type # "none" THEN Imported(t, <<>>, s.err, s.invalid)
    ELSE AfterTmp(NewCell(t, e, "N/A"), Len(t) + 1, ids, Normalized(s))

ReadInto(rf, e, s) == AfterRead(rf.t, rf.ids, e, Captured(get_data(s)))

\* lines 733-811, after the loop over the children left the importer s
AfterChildren(t, e, s) ==
    IF s.err.type # "none" THEN Imported(t, <<>>, s.err, <<>>)
    ELSE ReadInto(ReadFile(t, e, s.data, 1, <<>>), e, s)

\* _import(entry), lines 711-895, for the file named by the values of entry
ImportFile(t, e, name) ==
    IF name \notin CsvFiles
    THEN Imported(t, <<>>, ImpErr("ValueError", 728, <<name>>), <<>>)
    ELSE AfterChildren(t, e, ChildLoop(NewImporter(FileData(name)), t, EntryChildren(t, e), 1))

ImportOf(t, e) ==
    IF ~get_values(t, e).ok
    THEN Imported(t, <<>>, ImpErr("AttributeError", 1987, <<>>), <<>>)
    ELSE ImportFile(t, e, get_values(t, e).val)

(***************************************************************************)
(* _ph_table(entry, prs_ph, prs_slide): the loop over the children of the  *)
(* table entry and over the children of each row, then the creation of the *)
(* table shape.  The local table is a sequence of rows of entries; indices *)
(* of the code count from 0, positions of sequences from 1.                *)
(***************************************************************************)
\* if len(table) <= cur_row: table.insert(cur_row, [])
EnsureRow(table, cur_row) == IF Len(table) <= cur_row THEN Append(table, <<>>) ELSE table

\* as FindSlot, but stopping at the first column after the cursor
FindSlot_first(R, c) == c

RECURSIVE FindSlot(_, _)
\* lines 596-607: the column the loop stops at, starting at column c
FindSlot(R, c) ==
    IF Len(R) <= c THEN c
    ELSE IF R[c + 1] = None THEN c
    ELSE FindSlot(R, c + 1)

\* lines 600-607: append at the end of the row, or fill the empty slot
PutCell(R, c, id) == IF Len(R) <= c THEN Append(R, id) ELSE [R EXCEPT ![c + 1] = id]

\* list.insert(pos, x)
InsertAt(R, pos, x) ==
    IF pos >= Len(R) THEN Append(R, x)
    ELSE SubSeq(R, 1, pos) \o <<x>> \o SubSeq(R, pos + 1, Len(R))

\* lines 623-626: None is inserted up to column cur_col
PadTo(R, n) == IF Len(R) < n THEN R \o [j \in 1..(n - Len(R)) |-> None] ELSE R

RECURSIVE InsertEntries(_, _, _, _)
\* lines 629-630
InsertEntries(R, cur_col, irow, j) ==
    IF j > Len(irow) THEN R
    ELSE InsertEntries(InsertAt(R, cur_col + j - 1, irow[j]), cur_col, irow, j + 1)

InsertIRow(table, r, cur_col, irow) ==
    [table EXCEPT ![r] = InsertEntries(PadTo(@, cur_col), cur_col, irow, 1)]

RECURSIVE InsertGrid(_, _, _, _, _)
\* lines 618-630: the rows of an import under a row, from row cur_row down
InsertGrid(table, cur_row, cur_col, grid, i) ==
    IF i > Len(grid) THEN table
    ELSE InsertGrid(InsertIRow(EnsureRow(table, cur_row + i - 1), cur_row + i, cur_col, grid[i]),
                    cur_row, cur_col, grid, i + 1)

AppendTo(table, r, irow) == [table EXCEPT ![r] = @ \o irow]

RECURSIVE AppendGrid(_, _, _, _)
\* lines 649-655: the rows of an import under the table, after row cur_row
AppendGrid(table, cur_row, grid, i) ==
    IF i > Len(grid) THEN table
    ELSE AppendGrid(AppendTo(EnsureRow(table, cur_row + 1), cur_row + 2, grid[i]),
                    cur_row + 1, grid, i + 1)

\* datetime.datetime.now().strftime("%B %d, %Y")
DateText == "November 01, 2026"

RECURSIVE InsertText(_, _, _, _)
\* _prs_insert_text, lines 467-480: the text of an entry, or the exception
InsertText(t, data, k, text) ==
    IF k > Len(data) THEN [text |-> text, err |-> NoImpErr]
    ELSE IF t[data[k]].which = "value"
    THEN (IF t[data[k]].hasvalue THEN InsertText(t, data, k + 1, text \o t[data[k]].value)
          ELSE [text |-> text, err |-> ImpErr("AttributeError", 471, <<>>)])
    ELSE IF t[data[k]].tag = "date" THEN InsertText(t, data, k + 1, text \o DateText)
    ELSE [text |-> text, err |-> ImpErr("ValueError", 477, <<t[data[k]].tag>>)]

RECURSIVE WriteLoop(_, _, _, _, _, _)
WriteNext(t, table, max_col, i, j, acc, it) ==
    IF it.err.type # "none" THEN [text |-> acc, err |-> it.err]
    ELSE WriteLoop(t, table, max_col, i, j + 1, acc \cup {<<i, j, it.text>>})

\* lines 671-685: the cells written, as <<row, column, text>> counted from 1
WriteLoop(t, table, max_col, i, j, acc) ==
    IF i > Len(table) THEN [text |-> acc, err |-> NoImpErr]
    ELSE IF j > max_col + 1 \/ j > Len(table[i]) THEN WriteLoop(t, table, max_col, i + 1, 1, acc)
    ELSE IF table[i][j] = None THEN WriteLoop(t, table, max_col, i, j + 1, acc)
    ELSE WriteNext(t, table, max_col, i, j, acc, InsertText(t, t[table[i][j]].data, 1, ""))

\* prs_slide.shapes.add_table(len(table), max_col+1, ...) and its cells
Shape(rows, cols, w) == [made |-> TRUE, rows |-> rows, cols |-> cols, text |-> w.text]

InitTable ==
    /\ pc = "init"
    /\ tree \in {BuildTable(doc) : doc \in TableDocs}
    /\ var_stack = <<>>
    /\ walk = <<>>
    /\ nelems = 0
    /\ err = NoErr
    /\ ev = NoEv
    /\ modlog = <<>>
    /\ spec = ""
    /\ ga = [state |-> "idle", array |-> <<>>, err |-> NoGaErr]
    /\ imp = NoImport
    /\ stk = NoStacks
    /\ tbl = NoTable

TableRows == tree[TableId].data

InRows == tbl.pc = "rows" /\ tbl.i <= Len(TableRows)

InCols == tbl.pc = "cols" /\ tbl.k <= Len(tree[TableRows[tbl.i]].data)

Raised(e, last) == [tbl EXCEPT !.pc = "error", !.err = e, !.last = last]

\* _ph_table is called: lines 569-571.  A later call starts from the entry
\* tree the earlier call left.
TableCall ==
    /\ tbl.pc \in {"idle", "done"} /\ tbl.run < MaxRuns
    /\ tbl' = [tbl EXCEPT !.pc = "rows", !.run = @ + 1, !.i = 1, !.k = 0,
                          !.table = <<>>, !.cur_row = -1, !.cur_col = -1, !.max_col = 0,
                          !.prs = NoShape, !.last = "call",
                          !.first = IF tbl.run = 0 THEN @
                                    ELSE <<[table |-> tbl.table, prs |-> tbl.prs]>>,
                          !.before = IF tbl.run = 0 THEN tree ELSE @]
    /\ UNCHANGED <<treevars, gavars, imp, stk>>

\* lines 580-585: a row element starts
RowStart ==
    /\ InRows
    /\ tree[TableRows[tbl.i]].which = "entry" /\ tree[TableRows[tbl.i]].tag = "row"
    /\ tbl' = [tbl EXCEPT !.cur_row = @ + 1, !.cur_col = -1,
                          !.table = EnsureRow(@, tbl.cur_row + 1),
                          !.pc = "cols", !.k = 1, !.last = "row"]
    /\ UNCHANGED <<treevars, gavars, imp, stk>>

\* lines 575-578, 657-660: a value, or an element that is neither row nor import
TableInvalid ==
    /\ InRows
    /\ tree[TableRows[tbl.i]].which = "value" \/ tree[TableRows[tbl.i]].tag \notin {"row", "import"}
    /\ tbl' = IF tree[TableRows[tbl.i]].which = "value"
              THEN Raised(ImpErr("ValueError", 576, <<tree[TableRows[tbl.i]].value>>), "invalid")
              ELSE Raised(ImpErr("ValueError", 658, <<tree[TableRows[tbl.i]].tag>>), "invalid")
    /\ UNCHANGED <<treevars, gavars, imp, stk>>

\* the locals after the cell entry col went into column c of row cur_row
WithCell(col, c) ==
    [tbl EXCEPT !.table[tbl.cur_row + 1] = PutCell(@, c, col),
                !.cur_col = c, !.k = @ + 1, !.last = "cell"]

\* lines 595-607: a cell element
PlaceCell ==
    /\ InCols
    /\ tree[tree[TableRows[tbl.i]].data[tbl.k]].which = "entry"
    /\ tree[tree[TableRows[tbl.i]].data[tbl.k]].tag = "cell"
    /\ tbl' = WithCell(tree[TableRows[tbl.i]].data[tbl.k],
                       FindSlot(tbl.table[tbl.cur_row + 1], tbl.cur_col + 1))
    /\ UNCHANGED <<treevars, gavars, imp, stk>>

\* lines 589-592, 636-639: a value under a row, or an element that is neither
\* cell nor import.  The message for the value reads row.value, and row is
\* an entry: AttributeError.
CellInvalid ==
    /\ InCols
    /\ \/ tree[tree[TableRows[tbl.i]].data[tbl.k]].which = "value"
       \/ tree[tree[TableRows[tbl.i]].data[tbl.k]].tag \notin {"cell", "import"}
    /\ tbl' = IF tree[tree[TableRows[tbl.i]].data[tbl.k]].which = "value"
              THEN Raised(ImpErr("AttributeError", 590, <<>>), "invalid")
              ELSE Raised(ImpErr("ValueError", 637,
                                 <<tree[tree[TableRows[tbl.i]].data[tbl.k]].tag>>), "invalid")
    /\ UNCHANGED <<treevars, gavars, imp, stk>>

\* the locals after _import returned r for an import element under a row
WithCellImport(r) ==
    IF r.err.type # "none"
    THEN [Raised(r.err, "import") EXCEPT !.invalid = @ \o r.invalid]
    ELSE [tbl EXCEPT !.table = InsertGrid(@, tbl.cur_row, tbl.cur_col + 1, r.grid, 1),
                     !.cur_col = @ + 1, !.k = @ + 1, !.last = "import",
                     !.invalid = @ \o r.invalid]

TreeAfter(r) == r.t

\* lines 613-630: an import element under a row
CellImport ==
    /\ InCols
    /\ tree[tree[TableRows[tbl.i]].data[tbl.k]].which = "entry"
    /\ tree[tree[TableRows[tbl.i]].data[tbl.k]].tag = "import"
    /\ tbl' = WithCellImport(ImportOf(tree, tree[TableRows[tbl.i]].data[tbl.k]))
    /\ tree' = TreeAfter(ImportOf(tree, tree[TableRows[tbl.i]].data[tbl.k]))
    /\ UNCHANGED <<pc, var_stack, walk, nelems, err, ev, modlog, gavars, imp, stk>>

\* lines 641-643: the row element ends
RowEnd ==
    /\ tbl.pc = "cols" /\ tbl.k > Len(tree[TableRows[tbl.i]].data)
    /\ tbl' = [tbl EXCEPT !.max_col = IF Len(tbl.table[tbl.cur_row + 1]) > @ + 1
                                      THEN Len(tbl.table[tbl.cur_row + 1]) - 1 ELSE @,
                          !.pc = "rows", !.i = @ + 1, !.last = "rowend"]
    /\ UNCHANGED <<treevars, gavars, imp, stk>>

\* the locals after _import returned r for an import element under the table
WithRowImport(r) ==
    IF r.err.type # "none"
    THEN [Raised(r.err, "import") EXCEPT !.invalid = @ \o r.invalid]
    ELSE [tbl EXCEPT !.table = AppendGrid(@, tbl.cur_row, r.grid, 1),
                     !.cur_row = @ + Len(r.grid), !.i = @ + 1, !.last = "rowimport",
                     !.invalid = @ \o r.invalid]

\* lines 646-655: an import element under the table
RowImport ==
    /\ InRows
    /\ tree[TableRows[tbl.i]].which = "entry" /\ tree[TableRows[tbl.i]].tag = "import"
    /\ tbl' = WithRowImport(ImportOf(tree, TableRows[tbl.i]))
    /\ tree' = TreeAfter(ImportOf(tree, TableRows[tbl.i]))
    /\ UNCHANGED <<pc, var_stack, walk, nelems, err, ev, modlog, gavars, imp, stk>>

\* the locals after the cells were written, or writing one raised
WithShape(w) ==
    [tbl EXCEPT !.prs = Shape(Len(tbl.table), tbl.max_col + 1, w),
                !.pc = IF w.err.type # "none" THEN "error" ELSE "done",
                !.err = w.err, !.last = "create"]

\* lines 663-685: the table shape is created and its cells are written
CreateTable ==
    /\ tbl.pc = "rows" /\ tbl.i > Len(TableRows)
    /\ tbl' = WithShape(WriteLoop(tree, tbl.table, tbl.max_col, 1, 1, {}))
    /\ UNCHANGED <<treevars, gavars, imp, stk>>

NextTable ==
    \/ TableCall
    \/ RowStart
    \/ TableInvalid
    \/ PlaceCell
    \/ CellInvalid
    \/ CellImport
    \/ RowEnd
    \/ RowImport
    \/ CreateTable

SpecTable == InitTable /\ [][NextTable]_vars

(***************************************************************************)
(* Properties of the tree walk.                                            *)
(***************************************************************************)
Range(seq) == {seq[i] : i \in 1..Len(seq)}

Directives == {"get", "set", "mod", "append", "prepend"}
Lookups == {"get", "mod", "append", "prepend"}

\* the entries whose _process_element call is still open
OpenIds == {walk[i].id : i \in 1..Len(walk)}

\* the latest step resolved a directive without raising
Resolved(op) == ev.op = op /\ pc # "error"

\* the exception is one of the two undefined-variable errors
UndefinedErr == pc = "error" /\ err.type = "ValueError" /\ err.at \in {1600, 1822}

\* the name of the variable of a get / mod / set entry
VarOf(n) == get_values_tag(tree, n, "var").vals[1]

\* C1: a lookup (get, mod, append, prepend) of a name succeeds only if a set
\* directive wrote the name into the scope of an element that is still open
\* at the lookup; when every scope into which the name was set has been
\* popped (no enclosing element defines it), the lookup fails as undefined.
C1_SetNotVisibleAfterPop ==
    (ev.op \in Lookups /\ \A i \in 1..Len(walk) : ev.var \notin walk[i].sets)
        => UndefinedErr /\ err.var = ev.var

\* a set directive inside an element was executed, the element has been
\* post-visited, and a get of the name from a later sibling failed
C1_Witness ==
    \E n \in 1..Len(tree) :
        /\ tree[n].elemtag = "set"
        /\ tree[n].parent # RootId
        /\ n \notin Range(tree[tree[n].parent].data)
        /\ tree[n].parent \notin OpenIds
        /\ ev.op = "get" /\ ev.var = VarOf(n)
        /\ ev.parent = tree[tree[n].parent].parent
        /\ UndefinedErr

\* C2: after a mod of a name to V, the scope that defined the name (the
\* innermost one at the mod) holds V for as long as it is on the stack and
\* is not written again, whatever inner scopes are popped in between, and a
\* get of the name that resolves to that scope returns V.
C2_ModVisibleInAncestor ==
    \A n \in DOMAIN modlog :
        LET m == modlog[n]
        IN  /\ m.level \in 1..Len(var_stack)
            /\ n \in DOMAIN var_stack[m.level]
            /\ var_stack[m.level][n] = m.val
            /\ (Resolved("get") /\ ev.var = n /\ ev.level = m.level) => ev.val = m.val

\* a mod inside a descendant changed the binding of an ancestor, the scopes
\* in between were popped, and a get directly inside the ancestor returned
\* the new value
C2_Witness ==
    \E n \in DOMAIN modlog :
        LET m == modlog[n]
        IN  /\ m.level < m.depth
            /\ m.val # m.old
            /\ Len(var_stack) = m.level
            /\ Resolved("get") /\ ev.var = n /\ ev.level = m.level /\ ev.val = m.val

\* C3: a resolved get is replaced, at its position in the parent's child
\* list, by one new Value whose payload is the value of the innermost scope
\* defining the name; the other children keep their order; a get of a name
\* that no scope defines aborts the parse.
C3_GetReplacedInPlace ==
    [][ev'.op = "get" =>
          LET p    == ev'.parent
              idx  == ev'.idx
              old  == tree[p].data
              new  == tree'[p].data
              lvl  == InnermostDefining(var_stack', ev'.var)
          IN  IF lvl = 0 THEN pc' = "error"
              ELSE /\ pc' # "error"
                   /\ old[idx] = ev'.id
                   /\ new[idx] \notin Range(old)
                   /\ tree'[new[idx]].which = "value"
                   /\ tree'[new[idx]].hasvalue
                   /\ tree'[new[idx]].value = var_stack'[lvl][ev'.var]
                   /\ \A j \in 1..Len(old) : j # idx => new[j] = old[j]]_vars

\* C4: in the tree returned by parse, a value inserted by append is the last
\* child of its element and a value inserted by prepend the first, and no
\* append / prepend entry is left in a child list.
C4_AppendLastPrependFirst ==
    pc = "done" =>
        \A v \in 1..Len(tree) :
            LET d == tree[tree[v].parent].data
            IN  /\ (tree[v].origin = "append" /\ v \in Range(d)) => d[Len(d)] = v
                /\ (tree[v].origin = "prepend" /\ v \in Range(d)) => d[1] = v
                /\ (tree[v].which = "entry" /\ tree[v].elemtag \in {"append", "prepend"}
                      /\ v # RootId) => v \notin Range(d)

\* the text and resolved get values of a directive entry
HasGetValue(id) == \E c \in Range(tree[id].data) : tree[c].origin = "get"
HasTextValue(id) == \E c \in Range(tree[id].data) : tree[c].origin = "text"

RECURSIVE Descendants(_, _)
\* the objects below an entry (depth is bounded by the arena size)
Descendants(id, fuel) ==
    IF fuel = 0 THEN {}
    ELSE Range(tree[id].data) \cup
         UNION {Descendants(c, fuel - 1) : c \in Range(tree[id].data)}

\* C5: when a set or mod executes, no directive is left below it, and the
\* value it stores is the concatenation, in document order, of the element's
\* text pieces and of the values its nested gets resolved to.
C5_NestedResolvedFirst ==
    (ev.op \in {"set", "mod"} /\ pc # "error") =>
        /\ \A d \in Descendants(ev.id, Len(tree)) : tree[d].elemtag \notin Directives
        /\ ev.acc # "?" => /\ ev.val = ev.acc
                           /\ var_stack[ev.level][ev.var] = ev.acc

\* a set whose content had text and a nested get stored their concatenation
C5_Witness ==
    /\ Resolved("set")
    /\ HasGetValue(ev.id) /\ HasTextValue(ev.id)
    /\ ev.acc # "?" /\ Len(ev.val) >= 3

\* C6: a lookup of an undefined variable aborts with an error that carries
\* the directive kind, the variable name and the position (file and line).
C6_UndefinedErrorInfo ==
    (ev.op \in Lookups /\ InnermostDefining(var_stack, ev.var) = 0) =>
        /\ pc = "error"
        /\ err.directive = ev.op
        /\ err.hasvar /\ err.var = ev.var
        /\ err.file /\ err.line > 0

\* the arrangement parse accepts: presentation is the single root element,
\* it has children and they are all slide elements, every slide element is
\* a child of presentation and every placeholder element a child of a slide
AcceptedShape ==
    /\ Len(tree[RootId].data) = 1
    /\ LET r == tree[RootId].data[1]
       IN  /\ tree[r].which = "entry" /\ tree[r].elemtag = "presentation"
           /\ Len(tree[r].data) >= 1
           /\ \A c \in Range(tree[r].data) :
                 tree[c].which = "entry" /\ tree[c].elemtag = "slide"
    /\ \A n \in Descendants(RootId, Len(tree)) :
          /\ tree[n].elemtag = "slide" => tree[tree[n].parent].elemtag = "presentation"
          /\ tree[n].elemtag = "placeholder" => tree[tree[n].parent].elemtag = "slide"

\* the raise sites of the structure checks (parse and _postprocess_element)
StructureSites == {1468, 1663, 1670, 1675, 1676, 1686, 1696}

\* C7: parse returns only for the accepted arrangement, and a document that
\* a structure check rejects aborts with a structural-violation error (a
\* ValueError) that carries the source position.
C7_StructureChecked ==
    /\ pc = "done" => AcceptedShape
    /\ (pc = "error" /\ err.at \in StructureSites) =>
           err.type = "ValueError" /\ err.file /\ err.line > 0

\* the part of C7 that the code satisfies
C7_AcceptedOnly == pc = "done" => AcceptedShape

\* no directive element or attribute has been read
NoDirectives == \A n \in 1..Len(tree) : tree[n].elemtag \notin Directives

ValueDesc(s) == [k |-> "value", s |-> s, id |-> 0]
EntryDesc(id) == [k |-> "entry", s |-> "", id |-> id]

\* a child list as a list of payloads and entry identities
DataDesc(n) ==
    [i \in 1..Len(tree[n].data) |->
        IF tree[tree[n].data[i]].which = "value"
        THEN ValueDesc(tree[tree[n].data[i]].value)
        ELSE EntryDesc(tree[n].data[i])]

RECURSIVE ExpectedDesc(_, _)
\* the child list that the XML read for an entry calls for: an entry per
\* attribute and per child element, a value per text or tail that is not
\* empty after stripping; items whose name is in `consumed` are left out
ExpectedDesc(src, consumed) ==
    IF src = <<>> THEN <<>>
    ELSE LET it == Head(src)
             rest == ExpectedDesc(Tail(src), consumed)
         IN  IF it.k \in {"text", "tail"}
             THEN IF Strip(it.s) # "" THEN <<ValueDesc(Strip(it.s))>> \o rest ELSE rest
             ELSE IF <<it.k, it.name>> \in consumed THEN rest
             ELSE <<EntryDesc(it.id)>> \o rest

\* the XML of an entry was read in the order attributes, text, then child
\* elements each followed by its tail
SrcOrdered(src) ==
    \A i, j \in 1..Len(src) :
        i < j => /\ src[j].k # "attr" \/ src[i].k = "attr"
                 /\ src[j].k = "text" => src[i].k = "attr"
                 /\ src[j].k = "tail" => (src[j - 1].k = "child")

\* an attribute entry is flagged is_attrib and carries the attribute's name
AttrEntriesOk(n) ==
    \A i \in 1..Len(tree[n].src) :
        tree[n].src[i].k = "attr" =>
            /\ tree[tree[n].src[i].id].is_attrib
            /\ tree[tree[n].src[i].id].elemtag = tree[n].src[i].name

\* a placeholder whose post-visit has completed
ClosedPlaceholder(n) == tree[n].elemtag = "placeholder" /\ n \notin OpenIds

ChildListsMirrorSource(consumed) ==
    (NoDirectives /\ pc # "error") =>
        \A n \in 1..Len(tree) :
            tree[n].which = "entry" =>
                /\ SrcOrdered(tree[n].src)
                /\ AttrEntriesOk(n)
                /\ DataDesc(n) = ExpectedDesc(tree[n].src,
                                     IF ClosedPlaceholder(n) THEN consumed ELSE {})

\* C8 as stated: in a document without directives every child list is the
\* attribute entries, the stripped text, then each child entry followed by
\* its stripped tail, empty text giving no value; only the name attribute
\* of a placeholder is consumed.
C8_ChildListMirrorsSource == ChildListsMirrorSource({<<"attr", "name">>})

\* C8 amended: a placeholder consumes every child entry tagged name, built
\* from an attribute or from a child element.
C8_ChildListMirrorsSourceAmended ==
    ChildListsMirrorSource({<<"attr", "name">>, <<"child", "name">>})

\* parse returned a tree in which a placeholder holds text, a child element
\* and its tail, the child having two attributes and whitespace-only text
C8_Witness ==
    /\ pc = "done" /\ NoDirectives
    /\ \E n, c \in 1..Len(tree) :
          /\ tree[n].elemtag = "placeholder" /\ Len(tree[n].data) = 3
          /\ tree[c].parent = n /\ tree[c].elemtag = "p"
          /\ Len(tree[c].src) = 3 /\ Len(tree[c].data) = 2

(***************************************************************************)
(* Properties of _get_array.  The selector grammar is read here directly,  *)
(* character by character, without the patterns of the code.               *)
(***************************************************************************)
RECURSIVE SplitOn(_, _)
\* the pieces of s between the characters of seps
SplitOn(s, seps) ==
    IF \A k \in 1..Len(s) : Char(s, k) \notin seps THEN <<s>>
    ELSE LET k == CHOOSE i \in 1..Len(s) :
                      Char(s, i) \in seps /\ \A j \in 1..(i - 1) : Char(s, j) \notin seps
         IN  <<SubSeq(s, 1, k - 1)>> \o SplitOn(SubSeq(s, k + 1, Len(s)), seps)

AllDigits(s) == Len(s) > 0 /\ \A k \in 1..Len(s) : IsDigit(Char(s, k))
AllLetters(s) == Len(s) > 0 /\ \A k \in 1..Len(s) : IsLower(Char(s, k)) \/ IsUpper(Char(s, k))

RECURSIVE Bijective26(_)
\* a = 1 ... z = 26, aa = 27: the bijective base-26 numeral of lower-case s
Bijective26(s) ==
    IF Len(s) = 0 THEN 0
    ELSE 26 * Bijective26(SubSeq(s, 1, Len(s) - 1)) + LetterVal(Char(s, Len(s)))

\* the index a well-formed value denotes
ValueIndex(v) == IF AllDigits(v) THEN DecimalValue(v) ELSE Bijective26(Lower(v))

WellFormedValue(v) == (AllDigits(v) \/ AllLetters(v)) /\ ValueIndex(v) >= 1

WellFormedToken(t) ==
    LET parts == SplitOn(t, {"-", ":"})
    IN  Len(parts) \in 1..3 /\ \A k \in 1..Len(parts) : WellFormedValue(parts[k])

WellFormed(s) ==
    LET tokens == SplitOn(s, {","})
    IN  \A k \in 1..Len(tokens) : WellFormedToken(tokens[k])

\* the inclusive expansion of one well-formed token
TokenExpansion(t) ==
    LET parts == SplitOn(t, {"-", ":"})
        a     == ValueIndex(parts[1])
        b     == ValueIndex(parts[2])
        step  == IF Len(parts) = 3 THEN ValueIndex(parts[3]) ELSE 1
    IN  IF Len(parts) = 1 THEN <<a>>
        ELSE IF a <= b
             THEN [k \in 1..((b - a) \div step + 1) |-> a + (k - 1) * step]
             ELSE [k \in 1..((a - b) \div step + 1) |-> a - (k - 1) * step]

RECURSIVE ConcatExpansions(_)
ConcatExpansions(tokens) ==
    IF Len(tokens) = 0 THEN <<>>
    ELSE TokenExpansion(Head(tokens)) \o ConcatExpansions(Tail(tokens))

\* C9: for every well-formed selector string, _get_array returns the
\* concatenation, in token order, of the expansions of its comma-separated
\* tokens.
C9_ArrayIsConcatenatedExpansion ==
    (ga.state = "done" /\ WellFormed(spec))
        => /\ ga.err.type = "none"
           /\ ga.array = ConcatExpansions(SplitOn(spec, {","}))

\* C10: a value made only of letters, in either case and of any length,
\* decodes to its bijective base-26 index (a = 1, z = 26, aa = 27, ...).
C10_LettersBijectiveBase26 ==
    (ga.state = "done" /\ AllLetters(spec))
        => /\ ga.err.type = "none"
           /\ ga.array = <<Bijective26(Lower(spec))>>

\* a single value in which letters and digits are mixed, in either order
MixedValue(s) ==
    /\ \A k \in 1..Len(s) : IsDigit(Char(s, k)) \/ IsLower(Char(s, k)) \/ IsUpper(Char(s, k))
    /\ \E k \in 1..Len(s) : IsDigit(Char(s, k))
    /\ \E k \in 1..Len(s) : IsLower(Char(s, k)) \/ IsUpper(Char(s, k))

\* C11: a value that mixes letters and digits, in either order, is rejected
\* with the malformed-range-spec error (a ValueError) that contains the value
\* and the spec string, and no index list is returned.
C11_MixedValueRejected ==
    (ga.state = "done" /\ MixedValue(spec))
        => /\ ga.err.type = "ValueError"
           /\ ga.err.hasval /\ ga.err.val = spec
           /\ ga.err.hasspec
           /\ ga.array = <<>>

RECURSIVE FlattenValues(_)
\* the values of a selector in the order written
FlattenValues(tokens) ==
    IF Len(tokens) = 0 THEN <<>>
    ELSE SplitOn(Head(tokens), {"-", ":"}) \o FlattenValues(Tail(tokens))

\* every token has one to three values, each all digits or all letters
GrammarOk(s) ==
    LET tokens == SplitOn(s, {","})
    IN  \A k \in 1..Len(tokens) :
            LET parts == SplitOn(tokens[k], {"-", ":"})
            IN  /\ Len(parts) \in 1..3
                /\ \A j \in 1..Len(parts) : AllDigits(parts[j]) \/ AllLetters(parts[j])

\* the first value of the selector that resolves to less than 1
FirstBelowOne(s) ==
    LET vals == FlattenValues(SplitOn(s, {","}))
        k    == CHOOSE i \in 1..Len(vals) :
                    /\ ValueIndex(vals[i]) < 1
                    /\ \A j \in 1..(i - 1) : ValueIndex(vals[j]) >= 1
    IN  vals[k]

HasBelowOne(s) ==
    \E i \in 1..Len(FlattenValues(SplitOn(s, {","}))) :
        ValueIndex(FlattenValues(SplitOn(s, {","}))[i]) < 1

\* C12: every index of a returned list is at least 1, and a selector with a
\* value that resolves to less than 1 fails with an error that names that
\* value and the spec string.
C12_IndicesAtLeastOne ==
    ga.state = "done" =>
        /\ \A i \in 1..Len(ga.array) : ga.array[i] >= 1
        /\ (GrammarOk(spec) /\ HasBelowOne(spec)) =>
              /\ ga.err.type = "ValueError"
              /\ ga.err.hasval /\ ga.err.val = FirstBelowOne(spec)
              /\ ga.err.hasspec

\* the part of C12 about the returned indices
C12_ReturnedIndicesPositive ==
    ga.state = "done" => \A i \in 1..Len(ga.array) : ga.array[i] >= 1


(***************************************************************************)
(* Properties of the tabular importer.                                     *)
(***************************************************************************)
\* val contains key as a substring
Contains(val, key) ==
    \E k \in 0..(Len(val) - Len(key)) : SubSeq(val, k + 1, k + Len(key)) = key

\* every row of the grid has the length of the first one
Rectangular(data) == \A r \in 1..Len(data) : Len(data[r]) = Len(data[1])

\* the columns a row key scans: its col spec, else every column of the grid
ScannedCols(data, key) ==
    IF key.hasother THEN Range(key.other) ELSE 1..Len(data[1])

\* the rows a column key scans: its row spec, else every row of the grid
ScannedRows(data, key) ==
    IF key.hasother THEN Range(key.other) ELSE 1..Len(data)

RowMatches(data, key, r) ==
    \E c \in ScannedCols(data, key) : Contains(data[r][c], key.key)

ColMatches(data, key, c) ==
    \E r \in ScannedRows(data, key) : Contains(data[r][c], key.key)

RECURSIVE KeptOf(_, _, _, _)
\* the candidates of cand, in order, that match(x) holds for
KeptOf(data, key, cand, dim) ==
    IF cand = <<>> THEN <<>>
    ELSE (IF (IF dim = "row" THEN RowMatches(data, key, Head(cand))
                             ELSE ColMatches(data, key, Head(cand)))
          THEN <<Head(cand)>> ELSE <<>>)
         \o KeptOf(data, key, Tail(cand), dim)

\* the importer is about to read a non-empty rectangular grid, and every
\* index it was given lies in the grid
ReadInExtent(s) ==
    /\ s.pc = "config"
    /\ Len(s.data) > 0 /\ Len(s.data[1]) > 0
    /\ Rectangular(s.data)
    /\ \A k \in 1..Len(s.rows) : s.rows[k] <= Len(s.data)
    /\ \A k \in 1..Len(s.cols) : s.cols[k] <= Len(s.data[1])
    /\ \A k \in 1..Len(s.row_keys) : \A c \in ScannedCols(s.data, s.row_keys[k]) :
          c <= Len(s.data[1])
    /\ \A k \in 1..Len(s.col_keys) : \A r \in ScannedRows(s.data, s.col_keys[k]) :
          r <= Len(s.data)

\* the step is a read of the importer
IsRead == imp.pc = "config" /\ imp'.last = "read" /\ imp'.pc # "config"

\* C13: reading with one literal row_key filter leaves exactly the candidate
\* rows, in their original order, that have a scanned cell containing the key
\* as a substring; the scanned columns are the filter's col spec, else every
\* column of the grid, whatever columns add_col selected.
C13_LiteralRowKeyKeepsMatching ==
    [][(IsRead /\ ReadInExtent(imp) /\ Len(imp.row_keys) = 1 /\ ~imp.row_keys[1].re)
       => imp'.rows = KeptOf(imp.data, imp.row_keys[1], DefaultLines(imp).rows, "row")]_vars

\* the same statement for the grids without an empty cell
C13_HoldsWithoutEmptyCells ==
    [][(IsRead /\ ReadInExtent(imp) /\ Len(imp.row_keys) = 1 /\ ~imp.row_keys[1].re
        /\ \A r \in 1..Len(imp.data) : \A c \in 1..Len(imp.data[r]) : imp.data[r][c] # "")
       => imp'.rows = KeptOf(imp.data, imp.row_keys[1], DefaultLines(imp).rows, "row")]_vars


\* C14: adding a key filter in regex mode succeeds: the call raises nothing
\* and the importer holds one more filter, which is in regex mode.
C14_RegexFilterAdded ==
    [][(imp.pc = "config" /\ imp'.last \in {"row_key_re", "col_key_re"})
       => /\ imp'.err.type = "none"
          /\ Len(imp'.row_keys) + Len(imp'.col_keys)
                = Len(imp.row_keys) + Len(imp.col_keys) + 1
          /\ \/ (Len(imp'.row_keys) > Len(imp.row_keys)
                    /\ imp'.row_keys[Len(imp'.row_keys)].re
                    /\ imp'.row_keys[Len(imp'.row_keys)].built = "all")
             \/ (Len(imp'.col_keys) > Len(imp.col_keys)
                    /\ imp'.col_keys[Len(imp'.col_keys)].re
                    /\ imp'.col_keys[Len(imp'.col_keys)].built = "all")]_vars


\* the read of a non-empty grid ended with no row (dim = "row") or no column
\* (dim = "col") left by the key filters
NoCandidateLeft(dim) ==
    /\ imp.last = "read"
    /\ Len(imp.data) > 0 /\ Len(imp.data[1]) > 0
    /\ IF dim = "row" THEN imp.rows = <<>> ELSE imp.rows # <<>> /\ imp.cols = <<>>

\* the structured no-match error naming kind and the pattern of one of keys
NoMatchError(kind, keys) ==
    /\ imp.err.type = "KeyError"
    /\ Len(imp.err.args) = 3
    /\ imp.err.args[1] = "no match found"
    /\ imp.err.args[2] = kind
    /\ \E k \in 1..Len(keys) : imp.err.args[3] = keys[k].key

\* C16: when a key filter leaves no candidate, get_data fails with a
\* structured no-match error that names "row key" for a row_key filter and
\* "column key" for a col_key filter, and the pattern of the filter.
C16_NoMatchStructured ==
    /\ NoCandidateLeft("row") => NoMatchError("row key", imp.row_keys)
    /\ NoCandidateLeft("col") => NoMatchError("column key", imp.col_keys)

\* the row half of C16
C16_RowNoMatchStructured ==
    NoCandidateLeft("row") => NoMatchError("row key", imp.row_keys)


\* reading with one literal col_key filter leaves the candidate columns that
\* have a matching cell in the scanned rows, whatever rows the row filters
\* left (when they left one: otherwise the read ends at the row filter)
ColKeyKeepsMatching ==
    (IsRead /\ ReadInExtent(imp) /\ Len(imp.col_keys) = 1 /\ ~imp.col_keys[1].re
        /\ imp'.rows # <<>>)
       => imp'.cols = KeptOf(imp.data, imp.col_keys[1], DefaultLines(imp).cols, "col")

\* C15: an import with a col_key child gets a column filter, and the read
\* narrows the column candidates to the columns with a matching cell in the
\* scanned rows (the filter's row spec, else every row of the grid),
\* independently of the rows the row_key filters left.
C15_ColKeyNarrowsColumns ==
    [][/\ (imp.pc = "config" /\ imp'.last = "col_key" /\ imp'.err.at # 793)
            => (imp'.err.type = "none" /\ Len(imp'.col_keys) = Len(imp.col_keys) + 1)
       /\ ColKeyKeepsMatching]_vars

\* the narrowing of C15 for a filter added with add_col_key itself, on the
\* grids without an empty cell
C15_HoldsAtImporter ==
    [][(\A r \in 1..Len(imp.data) : \A c \in 1..Len(imp.data[r]) : imp.data[r][c] # "")
          => ColKeyKeepsMatching]_vars


\* the import read a non-empty grid
HasRead ==
    /\ imp.last \in {"read", "save"}
    /\ Len(imp.data) > 0 /\ Len(imp.data[1]) > 0

\* the read ended with a key filter that no candidate matched
NoMatchOccurred ==
    /\ HasRead
    /\ imp.rows = <<>> \/ imp.cols = <<>>

\* the read was asked for a row or a column beyond the extent of the grid
BeyondExtent ==
    /\ HasRead
    /\ \/ \E k \in 1..Len(imp.rows) : imp.rows[k] > Len(imp.data)
       \/ \E k \in 1..Len(imp.rows) : \E j \in 1..Len(imp.cols) :
             imp.rows[k] <= Len(imp.data) /\ imp.cols[j] > Len(imp.data[imp.rows[k]])

\* C17: a key-filter no-match and an index beyond the extent of the source
\* grid are hard errors: the run aborts, _import returns no grid and no
\* presentation is saved.
C17_NoMatchAndExtentAbort ==
    (NoMatchOccurred \/ BeyondExtent) => (imp.pc = "error" /\ imp.grid = <<>>)

\* the presentation is saved after a no-match and after an index beyond the
\* extent
C17_SavedAfterNoMatch == ~(NoMatchOccurred /\ imp.pc = "saved")

C17_SavedBeyondExtent == ~(BeyondExtent /\ imp.pc = "saved")


\* _import got as far as choosing its target counts: read() returned or its
\* exception was captured
ReachedCounts ==
    /\ imp.last = "read"
    /\ imp.pc = "done" \/ imp.err.at \in {856, 859}

\* the target count of a dimension: the explicit count when given, else the
\* number of candidates the key filters left (at least 1), else 1
TargetCount(explicit, keys, left) ==
    IF explicit # <<>> THEN DecimalValue(explicit[1])
    ELSE IF Len(keys) > 0 THEN (IF Len(left) < 1 THEN 1 ELSE Len(left))
    ELSE 1

\* C18: the target row count used by _import is the explicit num_row when
\* given, else the number of rows the row_key filters left (at least 1) when
\* there is a row_key filter, else 1; likewise for columns.
C18_TargetCounts ==
    ReachedCounts =>
        /\ imp.pc = "done"
        /\ Len(imp.grid) = TargetCount(imp.x_num_row, imp.row_keys, imp.rows)
        /\ \A i \in 1..Len(imp.grid) :
              Len(imp.grid[i]) = TargetCount(imp.x_num_col, imp.col_keys, imp.cols)

\* the part of C18 the code meets: with a row_key filter that left a row
\* and no explicit count, the grid has as many rows as the filters left
C18_FilteredRowCount ==
    (ReachedCounts /\ Len(imp.row_keys) > 0 /\ imp.rows # <<>>
        /\ imp.x_num_row = <<>> /\ imp.x_num_col = <<>>)
       => Len(imp.grid) = TargetCount(<<>>, imp.row_keys, imp.rows)

\* an import with an explicit count never returns
C18_ExplicitCountNeverReturns ==
    (imp.x_num_row # <<>> \/ imp.x_num_col # <<>>) => imp.pc \in {"config", "error"}

\* without a key filter and without an explicit count the grid has one row
C18_DefaultOneRow ==
    (ReachedCounts /\ Len(imp.row_keys) = 0 /\ imp.x_num_row = <<>> /\ imp.x_num_col = <<>>)
       => Len(imp.grid) = 1


\* the count _import normalises a dimension to: the explicit count when
\* given, else the count of the importer
UsedCount(explicit, count) ==
    IF explicit # <<>> THEN DecimalValue(explicit[1]) ELSE count

\* grid has num_row rows of num_col cells; cell (i, j) is the cell (i, j) of
\* entries when there is one and the "N/A" entry otherwise
PaddedTo(grid, entries, num_row, num_col) ==
    /\ Len(grid) = num_row
    /\ \A i \in 1..Len(grid) :
          /\ Len(grid[i]) = num_col
          /\ \A j \in 1..Len(grid[i]) :
                grid[i][j] = IF i <= Len(entries) /\ j <= Len(entries[i])
                             THEN entries[i][j] ELSE <<0, 0>>

\* C19: the grid _import returns is rectangular with exactly target-rows
\* rows of target-cols cells, holding the filtered result's cell where there
\* is one and the "N/A" entry elsewhere; so with an explicit num_row of 3 and
\* a filtered result of 2 rows it has 3 rows, the third all "N/A".
C19_GridPaddedToTarget ==
    ReachedCounts =>
        /\ imp.pc = "done"
        /\ PaddedTo(imp.grid, imp.ret,
                    UsedCount(imp.x_num_row, imp.num_row),
                    UsedCount(imp.x_num_col, imp.num_col))

\* the statement of C19 for the imports without an explicit count
C19_HoldsWithoutExplicitCount ==
    (ReachedCounts /\ imp.x_num_row = <<>> /\ imp.x_num_col = <<>>) =>
        /\ imp.pc = "done"
        /\ PaddedTo(imp.grid, imp.ret, imp.num_row, imp.num_col)


\* the row count or the column count of the filtered result differs from
\* the count _import normalises to
SizesDiffer ==
    \/ UsedCount(imp.x_num_row, imp.num_row) # Len(imp.ret)
    \/ UsedCount(imp.x_num_col, imp.num_col)
          # (IF Len(imp.ret) = 0 THEN 0 ELSE Len(imp.ret[1]))

\* msg begins with prefix
StartsWith(msg, prefix) ==
    Len(msg) >= Len(prefix) /\ SubSeq(msg, 1, Len(prefix)) = prefix

\* invalid_imports holds a size-mismatch diagnostic for the file
MismatchRecorded ==
    \E k \in 1..Len(imp.invalid) :
       \/ StartsWith(imp.invalid[k], "row number mismatch")
       \/ StartsWith(imp.invalid[k], "column number mismatch")

\* C20: whenever the filtered result's row count or column count differs
\* from the target count, _import records a size-mismatch diagnostic for the
\* file in invalid_imports and still returns its grid.
C20_MismatchRecorded ==
    (ReachedCounts /\ SizesDiffer) => (imp.pc = "done" /\ MismatchRecorded)

\* no import ever records a size-mismatch diagnostic
C20_NeverRecorded == ~MismatchRecorded

\* a returned grid whose size differs from the filtered result's
C20_ReturnedWithMismatch == ~(imp.pc = "done" /\ SizesDiffer)


\* the row (column) list get_data works on: the accumulated list, or the
\* full extent 1..n when no spec was added
Accumulated(list, n) == IF list = <<>> THEN [k \in 1..n |-> k] ELSE list

\* one output row per entry of rows and in it one cell per entry of cols
CrossOf(rows, cols) ==
    [i \in 1..Len(rows) |-> [j \in 1..Len(cols) |-> <<rows[i], cols[j]>>]]

\* C24: without key filters get_data returns one output row per entry of the
\* accumulated row list (the add_row specs concatenated in call order,
\* repeats included, or 1..N when none was added) and in each row one cell
\* per entry of the accumulated column list: output[i][j] is the source cell
\* (rows[i], cols[j]).  A read whose indices all lie in a non-empty grid does
\* return.
C24_PlainReadIsCrossProduct ==
    [][/\ (imp.pc = "config" /\ imp'.last = "row" /\ imp'.err.type = "none")
            => (imp'.cols = imp.cols
                /\ \E sp \in SheetSpecs : imp'.rows = imp.rows \o _get_array(sp).array)
       /\ (imp.pc = "config" /\ imp'.last = "col" /\ imp'.err.type = "none")
            => (imp'.rows = imp.rows
                /\ \E sp \in SheetSpecs : imp'.cols = imp.cols \o _get_array(sp).array)
       /\ (IsRead /\ imp.row_keys = <<>> /\ imp.col_keys = <<>>)
            => /\ ReadInExtent(imp) => imp'.err.type = "none"
               /\ imp'.pc = "done" =>
                     imp'.ret = CrossOf(Accumulated(imp.rows, Len(imp.data)),
                                        Accumulated(imp.cols, Len(imp.data[1])))]_vars

\* a read without key filters after two add_row calls, whose accumulated rows
\* name row 2 three times and whose output repeats that row
C24_Witness ==
    /\ imp.last = "read" /\ imp.pc = "done"
    /\ imp.row_keys = <<>> /\ imp.col_keys = <<>>
    /\ imp.rows = <<2, 1, 2, 2, 1, 2>>
    /\ Len(imp.ret) = 6
    /\ imp.ret[1] = imp.ret[3] /\ imp.ret[1] # imp.ret[2]


\* row r matches every one of the row key filters keys
RowMatchesEvery(data, keys, r) ==
    \A k \in 1..Len(keys) : RowMatches(data, keys[k], r)

RECURSIVE KeptByEvery(_, _, _)
\* the candidates of cand, in order and with their repeats, that match every
\* filter of keys
KeptByEvery(data, keys, cand) ==
    IF cand = <<>> THEN <<>>
    ELSE (IF RowMatchesEvery(data, keys, Head(cand)) THEN <<Head(cand)>> ELSE <<>>)
         \o KeptByEvery(data, keys, Tail(cand))

\* the first filter after which no candidate is left, 0 when there is none
FirstEmptying(data, keys, cand) ==
    LET emptying == {k \in 1..Len(keys) : KeptByEvery(data, SubSeq(keys, 1, k), cand) = <<>>}
    IN  IF emptying = {} THEN 0 ELSE CHOOSE k \in emptying : \A h \in emptying : k <= h

\* the row key filters are all literal
AllLiteral(keys) == \A k \in 1..Len(keys) : ~keys[k].re

\* a read with several literal row_key filters leaves the candidates that
\* match every filter, and the first filter that leaves none raises the
\* no-match error naming its pattern
SeveralRowKeysIntersect ==
    (IsRead /\ ReadInExtent(imp) /\ Len(imp.row_keys) >= 2 /\ AllLiteral(imp.row_keys))
       => /\ imp'.rows = KeptByEvery(imp.data, imp.row_keys, DefaultLines(imp).rows)
          /\ LET first == FirstEmptying(imp.data, imp.row_keys, DefaultLines(imp).rows)
             IN  IF first = 0 THEN imp'.err.at # 1146
                 ELSE imp'.err = ImpErr("KeyError", 1146,
                                        <<"no match found", "row key",
                                          imp.row_keys[first].key>>)

\* C26: with several row_key filters the surviving rows are the candidates
\* (original order, repeats kept) that match every filter, whatever the order
\* the filters were added in; the first filter that leaves no survivor raises
\* the no-match error.
C26_RowKeysIntersect == [][SeveralRowKeysIntersect]_vars

\* the statement of C26 on the grids without an empty cell
C26_HoldsWithoutEmptyCells ==
    [][(\A r \in 1..Len(imp.data) : \A c \in 1..Len(imp.data[r]) : imp.data[r][c] # "")
          => SeveralRowKeysIntersect]_vars

\* a read in which the first row_key filter left a row and the second none
C26_SecondFilterEmpties ==
    ~(/\ imp.last = "read" /\ Len(imp.row_keys) = 2
      /\ imp.err.type = "KeyError" /\ imp.err.args[3] = imp.row_keys[2].key
      /\ imp.row_keys[1].key # imp.row_keys[2].key)


(***************************************************************************)
(* Properties of the scope stack during the walk.                          *)
(***************************************************************************)
\* the frames of the walk in whose scope a set directive bound var
FramesSetting(w, var) == {i \in 1..Len(w) : var \in w[i].sets}

\* the largest element of a non-empty set of numbers
Largest(S) == CHOOSE m \in S : \A k \in S : k <= m

\* a step that resolved a set: the scope of the set element itself is gone,
\* and the binding is in the scope of the element that encloses the set
SetBindsEnclosing ==
    (ev'.op = "set" /\ pc' # "error") =>
        /\ walk' # <<>>
        /\ walk'[Len(walk')].id = ev'.parent
        /\ Len(var_stack') = Len(walk')
        /\ var_stack' = [pop(var_stack) EXCEPT ![Len(walk')] = DictSet(@, ev'.var, ev'.val)]

\* a step that resolved a get returned the binding of the innermost open
\* element in whose scope a set bound the name
GetReadsInnermostSet ==
    (ev'.op = "get" /\ pc' # "error") =>
        /\ FramesSetting(walk', ev'.var) # {}
        /\ ev'.val = var_stack'[Largest(FramesSetting(walk', ev'.var))][ev'.var]

\* the bindings of the scopes that stay on the stack change only by a set
\* into the top scope or a mod
BindingsKept ==
    \A i \in 1..Len(var_stack') :
        (i <= Len(var_stack) /\ var_stack'[i] # var_stack[i])
           => (ev'.op \in {"set", "mod"} /\ ev'.level = i /\ pc' # "error")

\* C25: in the post-visit the element's own scope is popped before its
\* directive executes, so a set binds the name in the scope of the element
\* enclosing the set directive: later siblings and their descendants get that
\* binding (the innermost one wins), and it shadows an outer binding only
\* until the enclosing element is post-visited.
C25_SetBindsEnclosingScope ==
    [][SetBindsEnclosing /\ GetReadsInnermostSet /\ BindingsKept]_vars

\* an element bound x, a nested element bound x again to another value and
\* was post-visited, and a get of x after it returned the outer value
C25_Witness ==
    \E m \in 1..Len(tree) :
        /\ tree[m].elemtag = "set"
        /\ tree[m].parent # RootId
        /\ tree[m].parent \notin OpenIds
        /\ tree[tree[m].parent].parent = ev.parent
        /\ Resolved("get") /\ ev.var = VarOf(m)
        /\ ev.level = Len(walk)
        /\ get_values(tree, m).val # ev.val
        /\ \E n \in 1..Len(tree) :
              /\ tree[n].elemtag = "set" /\ tree[n].parent = ev.parent
              /\ n < tree[m].parent
              /\ VarOf(n) = ev.var /\ get_values(tree, n).val = ev.val


\* the stack holds one scope per element entered and not yet post-visited,
\* and none when parse returns
OneScopePerOpenElement ==
    /\ pc \in {"init", "walk", "done"} => Len(var_stack) = Len(walk)
    /\ pc = "done" => var_stack = <<>>

\* each enter pushes one scope and each post-visit pops the scope on top,
\* leaving the scopes below in place
PushPopInStep ==
    /\ Len(walk') = Len(walk) + 1
          => (Len(var_stack') = Len(var_stack) + 1
              /\ var_stack'[Len(var_stack')] = EmptyDict
              /\ SubSeq(var_stack', 1, Len(var_stack)) = var_stack)
    /\ (Len(walk') = Len(walk) - 1 /\ pc' # "error")
          => (Len(var_stack') = Len(var_stack) - 1
              /\ \A i \in 1..Len(var_stack') : DOMAIN var_stack[i] \subseteq DOMAIN var_stack'[i])

\* the element being processed is a directive element
DirectiveOpen == pc = "walk" /\ walk # <<>> /\ tree[Top.id].tag \in Directives

\* C27: the scope stack holds exactly one scope per element entered and not
\* yet post-visited; a directive is resolved with a non-empty stack whose top
\* is the scope of its parent, so below the scope of a directive element
\* there is the scope of the element enclosing it, and pushing, popping and
\* set never fail on the stack; the stack is empty when parse returns.
C27_ScopeStackInStep ==
    /\ OneScopePerOpenElement
    /\ DirectiveOpen => Len(var_stack) >= 2
    /\ ~(pc = "error" /\ err.type = "IndexError" /\ err.at = 1768)

\* the part of C27 about the depth of the stack
C27_DepthFollowsWalk == OneScopePerOpenElement

C27_PushesAndPopsMatch == [][PushPopInStep]_vars

\* below the document root every directive has the scope of its parent
C27_HoldsBelowRoot ==
    (DirectiveOpen /\ Len(walk) >= 2) => Len(var_stack) >= 2


(***************************************************************************)
(* Properties of the objects of the tree.                                  *)
(***************************************************************************)
\* the objects another object holds in its child list
Placed == {c \in 1..Len(tree) : \E n \in 1..Len(tree) : c \in Range(tree[n].data)}

\* C30: every Value placed in a child list carries a string payload, also
\* a Value built from the empty string, so that reading the joined values of
\* an Entry never meets a Value without a payload.
C30_ValuesCarryPayload ==
    /\ \A c \in Placed : tree[c].which = "value" => tree[c].hasvalue
    /\ \A n \in 1..Len(tree) : tree[n].which = "entry" => get_values(tree, n).ok

\* the Values that add_text built all carry a payload
C30_TextValuesCarryPayload ==
    \A c \in Placed : (tree[c].which = "value" /\ tree[c].origin = "text") => tree[c].hasvalue

RECURSIVE ReachFrom(_)
\* the objects that the child lists lead to from the objects of S
ReachFrom(S) ==
    LET more == S \cup UNION {Range(tree[n].data) : n \in S}
    IN  IF more = S THEN S ELSE ReachFrom(more)

Reachable == ReachFrom({RootId})

Occurrences(seq, x) == Cardinality({i \in 1..Len(seq) : seq[i] = x})

Defining(vs, var) == {i \in 1..Len(vs) : var \in DOMAIN vs[i]}

\* no name is defined in two scopes of vs
NoShadowing(vs) == \A var \in StackVars : Cardinality(Defining(vs, var)) <= 1

\* C29: the VariableStack classes of pptx-preprocessor.py and pptx-creator.py
\* are equivalent: after every sequence of push, pop, set, mod and get calls
\* made on both, every get returned the same value and raised the same
\* exception on both, and both hold the same bindings in every scope
C29_StacksEquivalent ==
    /\ stk.got[1] = stk.got[2]
    /\ stk.creator = stk.preprocessor

\* the class of pptx-creator.py resolves a name to the innermost scope that
\* defines it
C29_CreatorInnermost ==
    [][(stk'.op = "get" /\ stk'.got[1].raised = "none")
          => stk'.got[1].val = stk.creator[Largest(Defining(stk.creator, stk'.var))][stk'.var]]_vars

\* the class of pptx-preprocessor.py resolves a name to the outermost scope
\* that defines it
C29_PreprocessorOutermost ==
    [][(stk'.op = "get" /\ stk'.got[2].raised = "none")
          => \E i \in Defining(stk.preprocessor, stk'.var) :
                /\ \A k \in Defining(stk.preprocessor, stk'.var) : i <= k
                /\ stk'.got[2].val = stk.preprocessor[i][stk'.var]]_vars

\* a call made on equal stacks in which no name is defined twice has the same
\* outcome and leaves the same bindings on both
C29_EquivalentWithoutShadowing ==
    [][(stk.creator = stk.preprocessor /\ NoShadowing(stk.creator))
          => (stk'.creator = stk'.preprocessor /\ stk'.got[1] = stk'.got[2])]_vars

(***************************************************************************)
(* Properties of the table assembler.                                      *)
(***************************************************************************)
Longest(table) ==
    IF table = <<>> THEN 0
    ELSE CHOOSE n \in {Len(table[i]) : i \in 1..Len(table)} :
            \A i \in 1..Len(table) : Len(table[i]) <= n

\* the slots of the local table that hold an entry
Filled(table) ==
    {<<i, j>> : i \in 1..Len(table), j \in 1..Longest(table)} \cap
        {p \in (1..Len(table)) \X (1..Longest(table)) :
            p[2] <= Len(table[p[1]]) /\ table[p[1]][p[2]] # None}

\* the table shape has the size of the local table and a text in exactly
\* the cells of its filled slots
ShapeMatches(prs, table) ==
    /\ prs.rows = Len(table)
    /\ prs.cols = Longest(table)
    /\ {<<w[1], w[2]>> : w \in prs.text} = Filled(table)

\* C21: once _ph_table created the table shape, the shape has as many rows as
\* the local table and as many columns as its longest row, and every slot
\* holding an entry was written to the cell of the same row and column, the
\* empty slots alone being skipped
C21_ShapeMatchesGrid ==
    tbl.prs.made => (tbl.pc = "done" /\ ShapeMatches(tbl.prs, tbl.table))

\* the shape always has the rows of the local table, and no cell is written
\* that does not come from the slot of the same row and column
C21_RowsAndOrigins ==
    tbl.prs.made =>
        /\ tbl.prs.rows = Len(tbl.table)
        /\ \A w \in tbl.prs.text :
              /\ <<w[1], w[2]>> \in Filled(tbl.table)
              /\ w[3] = InsertText(tree, tree[tbl.table[w[1]][w[2]]].data, 1, "").text

\* the children of the table entry are rows, one of them with an element
RowsOnly ==
    /\ \A i \in 1..Len(tbl.before[TableId].data) : tbl.before[tbl.before[TableId].data[i]].tag = "row"
    /\ \E i \in 1..Len(tbl.before[TableId].data) : tbl.before[tbl.before[TableId].data[i]].data # <<>>

\* no value object of the tree lacks its payload
AllPayloads == \A n \in 1..Len(tree) : tree[n].which = "value" => tree[n].hasvalue

\* C21 holds for a table made of row elements, one of them not empty, when
\* no imported cell is empty
C21_HoldsForRowElements ==
    (tbl.prs.made /\ RowsOnly /\ AllPayloads) => (tbl.pc = "done" /\ ShapeMatches(tbl.prs, tbl.table))

\* a step of PlaceCell
CellPlaced == tbl.pc = "cols" /\ tbl'.last = "cell" /\ tbl'.k = tbl.k + 1

\* the entries held by the slots of a table
EntriesIn(table) == {table[p[1]][p[2]] : p \in Filled(table)}

\* the placement of a literal cell, R being its row before and c the cursor
PlacedAtFirstFree(R, c) ==
    /\ tbl'.cur_col > c
    /\ tbl'.cur_col >= Len(R) \/ R[tbl'.cur_col + 1] = None
    /\ \A cc \in (c + 1)..(tbl'.cur_col - 1) : cc < Len(R) /\ R[cc + 1] # None
    /\ Len(tbl'.table) = Len(tbl.table)
    /\ Len(tbl'.table[tbl.cur_row + 1]) = IF tbl'.cur_col >= Len(R) THEN Len(R) + 1 ELSE Len(R)
    /\ tbl'.table[tbl.cur_row + 1][tbl'.cur_col + 1] = tree[TableRows[tbl.i]].data[tbl.k]
    /\ \A j \in 1..Len(R) : j # tbl'.cur_col + 1 => tbl'.table[tbl.cur_row + 1][j] = R[j]
    /\ \A i \in 1..Len(tbl.table) : i # tbl.cur_row + 1 => tbl'.table[i] = tbl.table[i]

\* C22: a literal cell goes to the first column after the cursor that is
\* beyond the end of its row or an empty slot of it, every other slot keeping
\* what it held; and no placement, of a cell or of imported entries, drops an
\* entry placed earlier
C22_CellAtFirstFreeSlot ==
    [][/\ CellPlaced => PlacedAtFirstFree(tbl.table[tbl.cur_row + 1], tbl.cur_col)
       /\ (tbl'.run = tbl.run /\ tbl.pc \in {"rows", "cols"})
             => EntriesIn(tbl.table) \subseteq EntriesIn(tbl'.table)]_vars

\* a cell has just filled an empty slot that an import of the row above left
\* in front of its entries
C22_Witness ==
    /\ tbl.pc = "cols" /\ tbl.last = "cell"
    /\ tbl.cur_col + 1 < Len(tbl.table[tbl.cur_row + 1])
    /\ tbl.table[tbl.cur_row + 1][tbl.cur_col + 2] # None

\* C23: a second run of _ph_table on the same table entry succeeds as the
\* first did, with the same local table and the same table shape, and a run
\* leaves the entry tree as it found it
C23_SecondRunIdentical ==
    /\ tbl.pc = "done" => tree = tbl.before
    /\ tbl.run = 2 =>
          /\ tbl.pc # "error"
          /\ tbl.pc = "done" => (tbl.table = tbl.first[1].table /\ tbl.prs = tbl.first[1].prs)

\* the table entry holds no import element
NoImports == \A n \in 1..Len(tbl.before) : tbl.before[n].tag # "import"

\* C23 holds for a table without import elements
C23_HoldsWithoutImports ==
    (tbl.run >= 1 /\ NoImports) =>
        /\ tbl.pc = "done" => tree = tbl.before
        /\ tbl.run = 2 =>
              /\ tbl.pc # "error"
              /\ tbl.pc = "done" => (tbl.table = tbl.first[1].table /\ tbl.prs = tbl.first[1].prs)

\* the first run of a table with an import element succeeded, and the second
\* run raised the ValueError of the child loop of _import
C23_SecondRunRaises ==
    (tbl.run = 2 /\ ~NoImports /\ tbl.pc \in {"done", "error"}) =>
        (tbl.pc = "error" /\ tbl.err.type = "ValueError" /\ tbl.err.at = 807)

====
